---------------------------- MODULE Spec2Model ----------------------------
(***************************************************************************)
(* A model of the source-dependency and preprocessing core of the C to     *)
(* Python agent: DependencyMapper (core/parser/dependency_mapper.py) and   *)
(* CPreprocessor (core/parser/c_preprocessor.py).                          *)
(*                                                                         *)
(* Spec    drives one DependencyMapper: the three mutators, and            *)
(*         get_dependency_order() run one step of its depth-first          *)
(*         traversal at a time.                                            *)
(* FairSpec is Spec with weak fairness on the traversal's steps (the code  *)
(*         is single-threaded and synchronous: a call that has started     *)
(*         keeps running).                                                 *)
(* PreprocessorSpec drives one CPreprocessor: define_macro,                *)
(*         add_include_path, reset, and process_source / process_file run  *)
(*         one include directive at a time.                                *)
(* FairPreprocessorSpec is PreprocessorSpec with weak fairness on the      *)
(*         steps of a running process_source.                              *)
(***************************************************************************)
EXTENDS Integers, Sequences, FiniteSets, TLC

(***************************************************************************)
(* Bounds of the model.                                                    *)
(***************************************************************************)
\* Mutating calls made on one DependencyMapper.
MaxCalls == 3
\* Calls made on one CPreprocessor since it was constructed or last reset.
MaxPreprocessorCalls == 3
\* reset() calls made on one CPreprocessor.
MaxResets == 1
\* Calls made on one SymbolTable.
MaxTableCalls == 3

(***************************************************************************)
(* Paths.  A path is the sequence of its components; a first component "/" *)
(* makes it absolute.  The process's working directory is /w.              *)
(***************************************************************************)
Cwd == <<"/", "w">>

\* The spellings callers pass in: three files, two of them spelled two ways.
Paths ==
    { <<"a.c">>, <<".", "a.c">>,
      <<"b.c">>, <<"/", "w", "b.c">>,
      <<"sub", "..", "c.c">> }

Symbols == {"f", "g"}

\* Lexical normalisation of an absolute path: "." is dropped, ".." removes
\* the component before it (never the root).  No component of the model's
\* file system is a symbolic link.
RECURSIVE Normalize(_, _)
Normalize(done, rest) ==
    IF rest = <<>> THEN done
    ELSE LET c == Head(rest) IN
         IF c = "." THEN Normalize(done, Tail(rest))
         ELSE IF c = ".." THEN
              Normalize(IF Len(done) > 1 THEN SubSeq(done, 1, Len(done) - 1)
                                         ELSE done, Tail(rest))
         ELSE Normalize(Append(done, c), Tail(rest))

\* str(Path(p).resolve()): made absolute against the working directory,
\* then normalised.
resolve(p) ==
    IF p # <<>> /\ Head(p) = "/" THEN Normalize(<<"/">>, Tail(p))
    ELSE Normalize(<<"/">>, Tail(Cwd) \o p)

Files == { resolve(p) : p \in Paths }

(***************************************************************************)
(* State.                                                                  *)
(***************************************************************************)
VARIABLES
    \* DependencyMapper's four defaultdict(set) maps.  A map is a function
    \* whose DOMAIN is the dict's key set; dependencies_keys is the insertion
    \* order of dependencies' keys, the order a for loop over the dict takes.
    dependencies, dependencies_keys, reverse_dependencies,
    file_symbols, symbol_files,
    \* The caller: the number of calls made other than the two traversals,
    \* the last call made with its arguments as passed, the (path, symbol)
    \* pairs that add_symbol_definition has been called with, the (file,
    \* symbol) pairs of the add_symbol_reference calls made while no file
    \* defined the symbol, and the getter calls made, each with the key it
    \* looked up and the set it returned.
    calls, last, defined, early_references, queried,
    \* get_dependency_order(): where it is, its locals visited, temp_mark
    \* and order, the index of the outer loop in dependencies_keys, the
    \* stack of active visit() calls (each with the dependencies its for
    \* loop has still to take), and the warnings logged.
    pc, visited, temp_mark, order, key_index, stack, log,
    \* The list get_strongly_connected_components() returned to the last
    \* call, if that call was one.
    components,
    \* SymbolTable's dict symbols (from a name to the Symbol stored under
    \* it) with the insertion order of its keys, the warnings it logged,
    \* and the caller's calls: how many, and for every name the first
    \* Symbol an add was called with.
    symbols, symbols_keys, table_log, table_calls, first_added,
    \* CPreprocessor's fields: macros is the dict as the sequence of its
    \* (name, value) items in insertion order, include_paths the list,
    \* processed_includes the set.
    macros, include_paths, processed_includes,
    \* process_source(): where the outermost call is, the stack of active
    \* process_source calls, the text the outermost call returned, and the
    \* messages logged.
    pp_pc, pp_stack, pp_result, pp_log,
    \* The caller: calls made since construction or the last reset(),
    \* reset() calls made, and the watched specs whose file was expanded
    \* before the last reset().
    pp_calls, pp_resets, expanded_earlier,
    \* What replace_include has done since construction or the last
    \* reset(): the specs it has met, the specs whose file it has expanded
    \* (in order, with repeats), and for every directive it has handled
    \* the spec, whether the spec had been met before, and the outcome.
    met, expanded, replaced

mapper_vars == <<dependencies, dependencies_keys, reverse_dependencies,
                 file_symbols, symbol_files>>
caller_vars == <<calls, last, defined, early_references, queried>>
order_vars == <<pc, visited, temp_mark, order, key_index, stack, log>>
preprocessor_vars == <<macros, include_paths, processed_includes>>
process_vars == <<pp_pc, pp_stack, pp_result, pp_log>>
epoch_vars == <<pp_resets, expanded_earlier>>
history_vars == <<pp_calls, epoch_vars, met, expanded, replaced>>
all_preprocessor_vars == <<preprocessor_vars, process_vars, history_vars>>
all_mapper_vars == <<mapper_vars, caller_vars, order_vars, components>>
all_table_vars == <<symbols, symbols_keys, table_log, table_calls,
                    first_added>>
vars == <<all_mapper_vars, all_preprocessor_vars, all_table_vars>>

(***************************************************************************)
(* dict helpers.                                                           *)
(***************************************************************************)
EmptyMap == [k \in {} |-> {}]

\* d.get(k, set())
Get(d, k) == IF k \in DOMAIN d THEN d[k] ELSE {}

\* d[k].add(v) on a defaultdict(set): the key is created when missing.
Added(d, k, v) ==
    [x \in DOMAIN d \cup {k} |-> IF x = k THEN Get(d, k) \cup {v} ELSE d[x]]

\* The key order of a dict after d[k] is touched.
KeyAdded(keys, d, k) == IF k \in DOMAIN d THEN keys ELSE Append(keys, k)

NoPath == <<>>
NoSymbol == "-"
Call(op, p, q, s) == [op |-> op, path |-> p, target |-> q, symbol |-> s]

(***************************************************************************)
(* add_file_dependency                                                     *)
(***************************************************************************)
\* A graph is the three things add_file_dependency writes.
Graph(dep, keys, rev) == [dep |-> dep, keys |-> keys, rev |-> rev]

\* An add_file_dependency without the test.
IsDependency_Always(source_file, target_file) == TRUE

\* if source_file != target_file (both resolved)
IsDependency(source_file, target_file) == source_file # target_file

\* An add_file_dependency that forgets the inverse edge.
FileDependencyAdded_NoInverse(G, source_file, target_file) ==
    LET s == resolve(source_file)
        t == resolve(target_file)
    IN  IF IsDependency(s, t)
        THEN Graph(Added(G.dep, s, t), KeyAdded(G.keys, G.dep, s), G.rev)
        ELSE G

\* The maps after add_file_dependency(source_file, target_file).
FileDependencyAdded(G, source_file, target_file) ==
    LET s == resolve(source_file)
        t == resolve(target_file)
    IN  IF IsDependency(s, t)
        THEN Graph(Added(G.dep, s, t), KeyAdded(G.keys, G.dep, s),
                   Added(G.rev, t, s))
        ELSE G

CurrentGraph == Graph(dependencies, dependencies_keys, reverse_dependencies)

SetGraph(G) ==
    /\ dependencies' = G.dep
    /\ dependencies_keys' = G.keys
    /\ reverse_dependencies' = G.rev

\* A finished get_dependency_order()'s locals are gone when the caller
\* makes its next call.
OrderLocalsDropped ==
    /\ pc' = "idle"
    /\ visited' = {}
    /\ temp_mark' = {}
    /\ order' = <<>>
    /\ key_index' = 0
    /\ stack' = <<>>
    /\ log' = <<>>

\* So is what the last query returned.
ResultsDropped ==
    /\ OrderLocalsDropped
    /\ components' = <<>>

Idle == pc = "idle" \/ pc = "returned"

add_file_dependency(source_file, target_file) ==
    /\ Idle
    /\ calls < MaxCalls
    /\ SetGraph(FileDependencyAdded(CurrentGraph, source_file, target_file))
    /\ calls' = calls + 1
    /\ last' = Call("add_file_dependency", source_file, target_file, NoSymbol)
    /\ ResultsDropped
    /\ UNCHANGED <<file_symbols, symbol_files, defined, early_references,
                   queried>>
    /\ UNCHANGED <<all_preprocessor_vars, all_table_vars>>

(***************************************************************************)
(* add_symbol_definition                                                   *)
(***************************************************************************)
\* An add_symbol_definition that records the path in symbol_files as it was
\* passed, not resolved.
add_symbol_definition_Unresolved(file_path, symbol_name) ==
    /\ Idle
    /\ calls < MaxCalls
    /\ file_symbols' = Added(file_symbols, resolve(file_path), symbol_name)
    /\ symbol_files' = Added(symbol_files, symbol_name, file_path)
    /\ calls' = calls + 1
    /\ last' = Call("add_symbol_definition", file_path, NoPath, symbol_name)
    /\ defined' = defined \cup {<<file_path, symbol_name>>}
    /\ UNCHANGED <<early_references, queried>>
    /\ ResultsDropped
    /\ UNCHANGED <<dependencies, dependencies_keys, reverse_dependencies>>
    /\ UNCHANGED <<all_preprocessor_vars, all_table_vars>>

\* An add_symbol_definition that looks the file up in dependencies with
\* [], which creates the key in a defaultdict.
add_symbol_definition_Touching(file_path, symbol_name) ==
    /\ Idle
    /\ calls < MaxCalls
    /\ file_symbols' = Added(file_symbols, resolve(file_path), symbol_name)
    /\ symbol_files' = Added(symbol_files, symbol_name, resolve(file_path))
    /\ dependencies' =
          [f \in DOMAIN dependencies \cup {resolve(file_path)} |->
              Get(dependencies, f)]
    /\ dependencies_keys' =
          KeyAdded(dependencies_keys, dependencies, resolve(file_path))
    /\ calls' = calls + 1
    /\ last' = Call("add_symbol_definition", file_path, NoPath, symbol_name)
    /\ defined' = defined \cup {<<file_path, symbol_name>>}
    /\ UNCHANGED <<early_references, queried>>
    /\ ResultsDropped
    /\ UNCHANGED reverse_dependencies
    /\ UNCHANGED <<all_preprocessor_vars, all_table_vars>>

\* An add_symbol_definition that makes the files that referenced the
\* symbol before depend on the new definer.
add_symbol_definition_Retroactive(file_path, symbol_name) ==
    /\ Idle
    /\ calls < MaxCalls
    /\ file_symbols' = Added(file_symbols, resolve(file_path), symbol_name)
    /\ symbol_files' = Added(symbol_files, symbol_name, resolve(file_path))
    /\ \/ /\ \E r \in early_references :
                /\ r[2] = symbol_name
                /\ SetGraph(FileDependencyAdded(CurrentGraph, r[1], file_path))
       \/ /\ \A r \in early_references : r[2] # symbol_name
          /\ UNCHANGED <<dependencies, dependencies_keys,
                         reverse_dependencies>>
    /\ calls' = calls + 1
    /\ last' = Call("add_symbol_definition", file_path, NoPath, symbol_name)
    /\ defined' = defined \cup {<<file_path, symbol_name>>}
    /\ UNCHANGED <<early_references, queried>>
    /\ ResultsDropped
    /\ UNCHANGED <<all_preprocessor_vars, all_table_vars>>

add_symbol_definition(file_path, symbol_name) ==
    /\ Idle
    /\ calls < MaxCalls
    /\ file_symbols' = Added(file_symbols, resolve(file_path), symbol_name)
    /\ symbol_files' = Added(symbol_files, symbol_name, resolve(file_path))
    /\ calls' = calls + 1
    /\ last' = Call("add_symbol_definition", file_path, NoPath, symbol_name)
    /\ defined' = defined \cup {<<file_path, symbol_name>>}
    /\ UNCHANGED <<early_references, queried>>
    /\ ResultsDropped
    /\ UNCHANGED <<dependencies, dependencies_keys, reverse_dependencies>>
    /\ UNCHANGED <<all_preprocessor_vars, all_table_vars>>

(***************************************************************************)
(* add_symbol_reference                                                    *)
(***************************************************************************)
\* for def_file in defining_files: self.add_file_dependency(file_path, def_file)
\* The loop takes the set in some order; every call has the same source, so
\* the maps and the key order it leaves are the same in any order.
\* A loop that stops after the first defining file.
DependenciesAdded_FirstOnly(G, file_path, defining_files) ==
    IF defining_files = {} THEN G
    ELSE FileDependencyAdded(G, file_path,
                             CHOOSE f \in defining_files : TRUE)

RECURSIVE DependenciesAdded(_, _, _)
DependenciesAdded(G, file_path, defining_files) ==
    IF defining_files = {} THEN G
    ELSE LET def_file == CHOOSE f \in defining_files : TRUE
         IN  DependenciesAdded(FileDependencyAdded(G, file_path, def_file),
                               file_path, defining_files \ {def_file})

\* An add_symbol_reference that records the symbol as one of the file's.
\* The references made so far while nothing defined their symbol, after
\* add_symbol_reference(file_path, symbol_name).
EarlyReferenced(file_path, symbol_name) ==
    IF Get(symbol_files, symbol_name) = {}
    THEN early_references \cup {<<resolve(file_path), symbol_name>>}
    ELSE early_references

add_symbol_reference_Recording(file_path, symbol_name) ==
    /\ Idle
    /\ calls < MaxCalls
    /\ SetGraph(DependenciesAdded(CurrentGraph, resolve(file_path),
                                  Get(symbol_files, symbol_name)))
    /\ file_symbols' = Added(file_symbols, resolve(file_path), symbol_name)
    /\ calls' = calls + 1
    /\ last' = Call("add_symbol_reference", file_path, NoPath, symbol_name)
    /\ ResultsDropped
    /\ early_references' = EarlyReferenced(file_path, symbol_name)
    /\ UNCHANGED queried
    /\ UNCHANGED <<symbol_files, defined>>
    /\ UNCHANGED <<all_preprocessor_vars, all_table_vars>>

add_symbol_reference(file_path, symbol_name) ==
    /\ Idle
    /\ calls < MaxCalls
    /\ SetGraph(DependenciesAdded(CurrentGraph, resolve(file_path),
                                  Get(symbol_files, symbol_name)))
    /\ calls' = calls + 1
    /\ last' = Call("add_symbol_reference", file_path, NoPath, symbol_name)
    /\ early_references' = EarlyReferenced(file_path, symbol_name)
    /\ UNCHANGED queried
    /\ ResultsDropped
    /\ UNCHANGED <<file_symbols, symbol_files, defined>>
    /\ UNCHANGED <<all_preprocessor_vars, all_table_vars>>

(***************************************************************************)
(* The read-only queries.                                                  *)
(***************************************************************************)
get_file_dependencies(file_path) == Get(dependencies, resolve(file_path))
get_file_dependents(file_path) == Get(reverse_dependencies, resolve(file_path))
get_file_symbols(file_path) == Get(file_symbols, resolve(file_path))
get_symbol_files(symbol_name) == Get(symbol_files, symbol_name)

\* A lookup d[k] on a defaultdict(set): a missing key is created.
Looked_Creating(d, k) ==
    [x \in DOMAIN d \cup {k} |-> IF x \in DOMAIN d THEN d[x] ELSE {}]

\* The dict after d.get(k, set()).
Looked(d, k) == d

Query(op, key, result) == [op |-> op, key |-> key, result |-> result]

\* A call of one of the four getters by the caller: what the call leaves
\* but for the map it looks in.
Queried(op, file_path, symbol_name, key, result) ==
    /\ Idle
    /\ calls < MaxCalls
    /\ calls' = calls + 1
    /\ last' = Call(op, file_path, NoPath, symbol_name)
    /\ queried' = queried \cup {Query(op, key, result)}
    /\ ResultsDropped
    /\ UNCHANGED <<defined, early_references>>
    /\ UNCHANGED <<all_preprocessor_vars, all_table_vars>>

GetFileDependencies(file_path) ==
    /\ Queried("get_file_dependencies", file_path, NoSymbol,
               resolve(file_path), get_file_dependencies(file_path))
    /\ dependencies' = Looked(dependencies, resolve(file_path))
    /\ dependencies_keys' =
          IF resolve(file_path) \in DOMAIN dependencies'
          THEN KeyAdded(dependencies_keys, dependencies, resolve(file_path))
          ELSE dependencies_keys
    /\ UNCHANGED <<reverse_dependencies, file_symbols, symbol_files>>

GetFileDependents(file_path) ==
    /\ Queried("get_file_dependents", file_path, NoSymbol,
               resolve(file_path), get_file_dependents(file_path))
    /\ reverse_dependencies' =
          Looked(reverse_dependencies, resolve(file_path))
    /\ UNCHANGED <<dependencies, dependencies_keys, file_symbols,
                   symbol_files>>

GetFileSymbols(file_path) ==
    /\ Queried("get_file_symbols", file_path, NoSymbol,
               resolve(file_path), get_file_symbols(file_path))
    /\ file_symbols' = Looked(file_symbols, resolve(file_path))
    /\ UNCHANGED <<dependencies, dependencies_keys, reverse_dependencies,
                   symbol_files>>

GetSymbolFiles(symbol_name) ==
    /\ Queried("get_symbol_files", NoPath, symbol_name,
               <<symbol_name>>, get_symbol_files(symbol_name))
    /\ symbol_files' = Looked(symbol_files, symbol_name)
    /\ UNCHANGED <<dependencies, dependencies_keys, reverse_dependencies,
                   file_symbols>>

(***************************************************************************)
(* get_dependency_order                                                    *)
(***************************************************************************)
\* An active visit(file_path) call: todo is what its for loop over
\* self.dependencies.get(file_path, set()) has not taken yet.  A set is
\* iterated in an order the caller does not control: any element of todo
\* may come next.
Frame(file_path, todo) == [file_path |-> file_path, todo |-> todo]

Top == stack[Len(stack)]
Popped == SubSeq(stack, 1, Len(stack) - 1)

\* A visit() that tests visited alone: a file met again is entered again
\* unless it is finished.
VisitTest_NoVisitedTest(file_path, marks, seen) ==
    IF file_path \in marks THEN "cycle" ELSE "enter"

\* A visit() that returns silently on a marked file, as on a visited one.
VisitTest_NoWarning(file_path, marks, seen) ==
    IF file_path \in marks \/ file_path \in seen THEN "seen" ELSE "enter"

\* The first two tests of visit(): "cycle" when file_path is in temp_mark,
\* "seen" when it is in visited, "enter" otherwise.
VisitTest(file_path, marks, seen) ==
    IF file_path \in marks THEN "cycle"
    ELSE IF file_path \in seen THEN "seen"
    ELSE "enter"

\* A traversal that records a file when it enters it, not when it leaves it.
Appended_AtFront(ord, file_path) == <<file_path>> \o ord

\* order.append(file_path)
Appended(ord, file_path) == Append(ord, file_path)

\* A visit() that leaves its mark behind.
Removed_Kept(marks, file_path) == marks

\* temp_mark.remove(file_path); a KeyError when it is not there.
Removed(marks, file_path) == marks \ {file_path}

\* The call visit(file_path), made with the callers' frames being stk: it
\* logs and returns, returns, or marks file_path and starts its loop.
Visit(file_path, stk) ==
    LET t == VisitTest(file_path, temp_mark, visited) IN
    /\ log' = IF t = "cycle" THEN Append(log, file_path) ELSE log
    /\ temp_mark' = IF t = "enter" THEN temp_mark \cup {file_path}
                    ELSE temp_mark
    /\ stack' = IF t = "enter"
                THEN Append(stk, Frame(file_path, Get(dependencies, file_path)))
                ELSE stk

\* The call itself: the three locals are created.
get_dependency_order ==
    /\ Idle
    /\ pc' = "order"
    /\ visited' = {}
    /\ temp_mark' = {}
    /\ order' = <<>>
    /\ key_index' = 1
    /\ stack' = <<>>
    /\ log' = <<>>
    /\ last' = Call("get_dependency_order", NoPath, NoPath, NoSymbol)
    /\ components' = <<>>
    /\ UNCHANGED <<mapper_vars, calls, defined, early_references,
                   queried>>
    /\ UNCHANGED <<all_preprocessor_vars, all_table_vars>>

\* for file_path in self.dependencies: if file_path not in visited: visit(file_path)
NextFile ==
    /\ pc = "order"
    /\ stack = <<>>
    /\ key_index <= Len(dependencies_keys)
    /\ key_index' = key_index + 1
    /\ LET file_path == dependencies_keys[key_index] IN
       IF file_path \notin visited
       THEN Visit(file_path, stack)
       ELSE UNCHANGED <<temp_mark, stack, log>>
    /\ UNCHANGED <<mapper_vars, caller_vars, pc, visited, order, components>>
    /\ UNCHANGED <<all_preprocessor_vars, all_table_vars>>

\* for dep in self.dependencies.get(file_path, set()): visit(dep)
VisitDependency ==
    /\ pc = "order"
    /\ stack # <<>>
    /\ \E dep \in Top.todo :
          Visit(dep, Append(Popped, Frame(Top.file_path, Top.todo \ {dep})))
    /\ UNCHANGED <<mapper_vars, caller_vars, pc, visited, order, key_index,
                   components>>
    /\ UNCHANGED <<all_preprocessor_vars, all_table_vars>>

\* The loop of visit() is over: unmark, mark visited, append, return.
VisitReturn ==
    /\ pc = "order"
    /\ stack # <<>>
    /\ Top.todo = {}
    /\ IF Top.file_path \in temp_mark
       THEN /\ temp_mark' = Removed(temp_mark, Top.file_path)
            /\ visited' = visited \cup {Top.file_path}
            /\ order' = Appended(order, Top.file_path)
            /\ stack' = Popped
            /\ pc' = pc
       ELSE \* KeyError, which nothing catches
            /\ pc' = "raised"
            /\ stack' = <<>>
            /\ UNCHANGED <<temp_mark, visited, order>>
    /\ UNCHANGED <<mapper_vars, caller_vars, key_index, log, components>>
    /\ UNCHANGED <<all_preprocessor_vars, all_table_vars>>

\* return order
OrderReturn ==
    /\ pc = "order"
    /\ stack = <<>>
    /\ key_index > Len(dependencies_keys)
    /\ pc' = "returned"
    /\ UNCHANGED <<mapper_vars, caller_vars, visited, temp_mark, order,
                   key_index, stack, log, components>>
    /\ UNCHANGED <<all_preprocessor_vars, all_table_vars>>

OrderStep == NextFile \/ VisitDependency \/ VisitReturn \/ OrderReturn

(***************************************************************************)
(* get_strongly_connected_components                                       *)
(***************************************************************************)
\* A dfs() that does not go on from the dependencies it adds.
dfs_Shallow(file_path, seen) ==
    seen \cup {file_path} \cup Get(dependencies, file_path)

\* dfs(file_path, component): visited after the call, given visited before
\* it.  component.add goes with every visited.add, so the component is
\* what the call adds to visited.  The set's iteration order does not
\* change what is added.
RECURSIVE dfs(_, _), DfsEach(_, _)
dfs(file_path, seen) ==
    DfsEach(Get(dependencies, file_path), seen \cup {file_path})

\* for dep in self.dependencies.get(file_path, set()):
\*     if dep not in visited: dfs(dep, component)
DfsEach(deps, seen) ==
    IF deps = {} THEN seen
    ELSE LET dep == CHOOSE d \in deps : TRUE IN
         DfsEach(deps \ {dep}, IF dep \in seen THEN seen ELSE dfs(dep, seen))

\* for file_path in self.dependencies: if file_path not in visited: ...
RECURSIVE ComponentsFrom(_, _, _)
ComponentsFrom(keys, seen, found) ==
    IF keys = <<>> THEN found
    ELSE IF Head(keys) \in seen THEN ComponentsFrom(Tail(keys), seen, found)
    ELSE LET after == dfs(Head(keys), seen) IN
         ComponentsFrom(Tail(keys), after, Append(found, after \ seen))

get_strongly_connected_components ==
    /\ Idle
    /\ components' = ComponentsFrom(dependencies_keys, {}, <<>>)
    /\ last' = Call("get_strongly_connected_components", NoPath, NoPath,
                    NoSymbol)
    /\ OrderLocalsDropped
    /\ UNCHANGED <<mapper_vars, calls, defined, early_references,
                   queried>>
    /\ UNCHANGED <<all_preprocessor_vars, all_table_vars>>

(***************************************************************************)
(* Text.  A text is a sequence of atoms.  An atom is a single character    *)
(* or one of the directive words and file names below, which no pattern of *)
(* the code looks inside except by the prefix tests modelled here; no      *)
(* macro of the model is named by a part of one.                           *)
(***************************************************************************)
NL == "\n"
SP == " "
INCLUDE == "#include"
Whitespace == {SP, "\t", NL}
Openers == {"<", "\""}
Closers == {">", "\""}
Directives == {"#include", "#if", "#ifdef", "#ifndef", "#endif", "#else"}
FileNames == {"a.h", "b.h", "s.h", "u.h", "m.h", "e.h"}
WordChars == {"A", "B", "G", "M", "N", "S", "U", "X", "Z", "1", "n"}
BACKSLASH == "\\"

\* \w at the atom's first and at its last character.
FirstIsWord(atom) == atom \in WordChars \/ atom \in FileNames
LastIsWord(atom) == atom \in WordChars \/ atom \in FileNames
                    \/ atom \in Directives

From(text, i) == SubSeq(text, i, Len(text))

(***************************************************************************)
(* _process_includes: the pattern #include\s*[<"]([^>"]+)[>"]              *)
(***************************************************************************)
NoMatch == [ok |-> FALSE, start |-> 0, end |-> 0, spec |-> <<>>]

RECURSIVE SkipWhitespace(_, _)
SkipWhitespace(text, i) ==
    IF i <= Len(text) /\ text[i] \in Whitespace
    THEN SkipWhitespace(text, i + 1) ELSE i

RECURSIVE FirstCloser(_, _)
FirstCloser(text, i) ==
    IF i > Len(text) THEN 0
    ELSE IF text[i] \in Closers THEN i
    ELSE FirstCloser(text, i + 1)

\* The match of the pattern that starts at i, if there is one.
MatchAt(text, i) ==
    IF ~(i \in DOMAIN text /\ text[i] = INCLUDE) THEN NoMatch
    ELSE LET j == SkipWhitespace(text, i + 1)
             k == FirstCloser(text, j + 1)
         IN  IF j \in DOMAIN text /\ text[j] \in Openers /\ k > j + 1
             THEN [ok |-> TRUE, start |-> i, end |-> k,
                   spec |-> SubSeq(text, j + 1, k - 1)]
             ELSE NoMatch

\* re.sub's scan: the leftmost match that starts at i or later.
RECURSIVE NextMatch(_, _)
NextMatch(text, i) ==
    IF i > Len(text) THEN NoMatch
    ELSE IF MatchAt(text, i).ok THEN MatchAt(text, i)
    ELSE NextMatch(text, i + 1)

(***************************************************************************)
(* _expand_macros                                                          *)
(***************************************************************************)
\* \b between the atoms at i and i + 1 (the ends of the text are not word
\* characters).
Boundary(text, i) ==
    LET before == i \in DOMAIN text /\ LastIsWord(text[i])
        after == (i + 1) \in DOMAIN text /\ FirstIsWord(text[i + 1])
    IN  before # after

\* Whether \b name \b matches at i.
WordAt(text, name, i) ==
    /\ i + Len(name) - 1 <= Len(text)
    /\ SubSeq(text, i, i + Len(name) - 1) = name
    /\ Boundary(text, i - 1)
    /\ Boundary(text, i + Len(name) - 1)

\* re.sub reads a string replacement as a template: a backslash and the
\* atom after it are an escape.  \n is a newline and \\ a backslash; a
\* backslash before a character that is neither a letter nor a digit
\* stays; \1 refers to a group the pattern does not have, a backslash
\* before another letter is a bad escape and so is one at the end, and
\* those three raise re.error.
BadTemplate == [ok |-> FALSE, text |-> <<>>]

RECURSIVE Template(_)
Template(value) ==
    IF value = <<>> THEN [ok |-> TRUE, text |-> <<>>]
    ELSE IF Head(value) # BACKSLASH
         THEN LET rest == Template(Tail(value)) IN
              [ok |-> rest.ok, text |-> <<Head(value)>> \o rest.text]
    ELSE IF Len(value) = 1 THEN BadTemplate
    ELSE LET rest == Template(SubSeq(value, 3, Len(value)))
             escaped == IF value[2] = "n" THEN <<NL>>
                        ELSE IF value[2] = BACKSLASH THEN <<BACKSLASH>>
                        ELSE <<BACKSLASH, value[2]>>
         IN  IF value[2] \in WordChars \ {"n"} THEN BadTemplate
             ELSE [ok |-> rest.ok, text |-> escaped \o rest.text]

\* re.sub(r'\b' + re.escape(name) + r'\b', value, text), from i on, value
\* being what the template of the macro's value expands to.
RECURSIVE Substituted(_, _, _, _)
Substituted(text, name, value, i) ==
    IF i > Len(text) THEN <<>>
    ELSE IF WordAt(text, name, i)
         THEN value \o Substituted(text, name, value, i + Len(name))
         ELSE <<text[i]>> \o Substituted(text, name, value, i + 1)

\* A loop that takes the macros last defined first.
RECURSIVE ExpandedBy_Reversed(_, _)
ExpandedBy_Reversed(items, text) ==
    IF items = <<>> THEN text
    ELSE LET last_item == items[Len(items)] IN
         ExpandedBy_Reversed(SubSeq(items, 1, Len(items) - 1),
                    Substituted(text, last_item[1],
                                Template(last_item[2]).text, 1))

\* for macro_name, macro_value in self.macros.items(): one re.sub each.
RECURSIVE ExpandedBy(_, _)
ExpandedBy(items, text) ==
    IF items = <<>> THEN text
    ELSE ExpandedBy(Tail(items),
                    Substituted(text, Head(items)[1],
                                Template(Head(items)[2]).text, 1))

\* Whether a re.sub of the loop raises re.error: the template is compiled
\* before the text is searched, so one bad value is enough.
Raises(items) == \E i \in DOMAIN items : ~Template(items[i][2]).ok

_expand_macros(source) == ExpandedBy(macros, source)

(***************************************************************************)
(* _process_conditionals                                                   *)
(***************************************************************************)
\* source.split('\n')
RECURSIVE Split(_, _)
Split(text, line) ==
    IF text = <<>> THEN <<line>>
    ELSE IF Head(text) = NL THEN <<line>> \o Split(Tail(text), <<>>)
    ELSE Split(Tail(text), Append(line, Head(text)))

\* '\n'.join(lines)
RECURSIVE Join(_)
Join(lines) ==
    IF lines = <<>> THEN <<>>
    ELSE IF Len(lines) = 1 THEN lines[1]
    ELSE lines[1] \o <<NL>> \o Join(Tail(lines))

\* The first atom of line.strip(), or NL when the line is blank.
RECURSIVE FirstOfStripped(_)
FirstOfStripped(line) ==
    IF line = <<>> THEN NL
    ELSE IF Head(line) \in Whitespace THEN FirstOfStripped(Tail(line))
    ELSE Head(line)

\* A test that does not strip the line.
StartsConditional_Unstripped(line) ==
    line # <<>> /\ Head(line) \in {"#if", "#ifdef", "#ifndef"}

\* line.strip().startswith(('#if', '#ifdef', '#ifndef'))
StartsConditional(line) ==
    FirstOfStripped(line) \in {"#if", "#ifdef", "#ifndef"}

\* line.strip().startswith('#endif')
StartsEndif(line) == FirstOfStripped(line) = "#endif"

\* A loop that keeps the line that starts a skip region.
RECURSIVE Filtered_KeepingOpener(_, _)
Filtered_KeepingOpener(lines, skip_until_endif) ==
    IF lines = <<>> THEN <<>>
    ELSE IF skip_until_endif
         THEN Filtered_KeepingOpener(Tail(lines), ~StartsEndif(Head(lines)))
    ELSE IF StartsConditional(Head(lines))
         THEN <<Head(lines)>> \o Filtered_KeepingOpener(Tail(lines), TRUE)
    ELSE <<Head(lines)>> \o Filtered_KeepingOpener(Tail(lines), FALSE)

\* The loop over the lines, from the first of lines on.
RECURSIVE Filtered(_, _)
Filtered(lines, skip_until_endif) ==
    IF lines = <<>> THEN <<>>
    ELSE IF skip_until_endif
         THEN Filtered(Tail(lines), ~StartsEndif(Head(lines)))
    ELSE IF StartsConditional(Head(lines))
         THEN Filtered(Tail(lines), TRUE)
    ELSE <<Head(lines)>> \o Filtered(Tail(lines), FALSE)

\* A _process_conditionals that returns the text as it got it.
_process_conditionals_Kept(source) == source

_process_conditionals(source) == Join(Filtered(Split(source, <<>>), FALSE))

(***************************************************************************)
(* The files on disk and the texts callers pass in.                        *)
(***************************************************************************)
IncludeQuoted(name) == <<INCLUDE, SP, "\"", name, "\"">>
IncludeAngled(name) == <<INCLUDE, SP, "<", name, ">">>

IncludeDirs == {"inc", "sys"}

Missing == [exists |-> FALSE, readable |-> FALSE, content |-> <<>>]
Unreadable == [exists |-> TRUE, readable |-> FALSE, content |-> <<>>]
Holding(text) == [exists |-> TRUE, readable |-> TRUE, content |-> text]

\* The file at a path: a.h and b.h include each other, s.h includes
\* itself, inc/u.h exists and cannot be read, m.h is nowhere, and e.h has
\* nested conditionals.
FileAt(path) ==
    CASE path = <<"inc", <<"a.h">> >> ->
            Holding(IncludeQuoted("b.h") \o <<NL, "A">>)
      [] path = <<"inc", <<"b.h">> >> ->
            Holding(IncludeAngled("a.h") \o <<NL, "N">>)
      [] path = <<"inc", <<"s.h">> >> ->
            Holding(IncludeAngled("s.h") \o <<NL, "S">>)
      [] path = <<"inc", <<"u.h">> >> -> Unreadable
      [] path = <<"sys", <<"u.h">> >> -> Holding(<<"U">>)
      [] path = <<"sys", <<"a.h">> >> -> Holding(<<"M">>)
      [] path = <<"inc", <<"e.h">> >> ->
            \* an include guard around a conditional, a line and the
            \* guard's #endif, and a line after it
            Holding(<<"#ifndef", SP, "X", NL, "#ifdef", SP, "Z", NL, "#endif",
                      NL, "A", NL, "#endif", NL, "B">>)
      [] path = <<"main.c">> ->
            Holding(IncludeAngled("u.h") \o <<NL, "N", SP, "N", "G">>)
      [] OTHER -> Missing

\* Path(include_dir) / include_path
Joined(include_dir, include_path) == <<include_dir, include_path>>

TopFiles == {"main.c", "gone.c"}

Sources ==
    { IncludeQuoted("a.h") \o <<NL>> \o IncludeAngled("a.h")
          \o <<NL, "N", SP, "N", "G">>,
      <<"#ifdef", SP, "X", NL>> \o IncludeQuoted("b.h")
          \o <<NL, "#endif", NL>> \o IncludeQuoted("b.h") \o <<NL, "Z">>,
      IncludeQuoted("m.h") \o <<NL>> \o IncludeQuoted("u.h") \o <<NL, "M">>,
      IncludeQuoted("s.h") }

\* A text that includes a header inside a conditional, and again after it.
RegionSource(name) ==
    <<"#ifdef", SP, "X", NL>> \o IncludeQuoted(name)
        \o <<NL, "#endif", NL>> \o IncludeQuoted(name) \o <<NL, "Z">>

RegionSources == { RegionSource(name) : name \in {"a.h", "s.h", "m.h", "e.h"} }

MacroNames == { <<"N">>, <<"M">> }
MacroValues == { <<"1">>, <<"M">> }

\* Macro tables as sequences of define_macro calls leave them, among them
\* values with a backslash: \n, \1 and \\.
MacroTables ==
    { << <<<<"N">>, <<"1">>>> >>,
      << <<<<"M">>, <<"1">>>>, <<<<"N">>, <<"M">>>> >>,
      << <<<<"N">>, <<"M">>>>, <<<<"M">>, <<"1">>>> >>,
      << <<<<"N">>, <<"'", BACKSLASH, "n", "'">>>> >>,
      << <<<<"N">>, <<BACKSLASH, "1">>>> >>,
      << <<<<"N">>, <<BACKSLASH, BACKSLASH>>>> >> }

\* Search paths as sequences of add_include_path calls leave them.
PathLists == { <<"inc">>, <<"inc", "sys">> }

\* The longest text of tokens.
MaxTokens == 3

\* The most lines of a text of directive lines.
MaxLines == 4

\* Lines: an #ifndef, an indented #if, an indented #endif with text after
\* it, a line with #ifdef after other text, and the empty line.
LineKinds ==
    { <<"#ifndef", SP, "X">>, <<SP, "#if", SP, "1">>,
      <<SP, "#endif", SP, "Z">>, <<"N", SP, "#ifdef">>, <<>> }

LineTexts ==
    UNION { { Join(lines) : lines \in [1..n -> LineKinds] } : n \in 1..MaxLines }

\* Texts of identifiers and separators: N alone, at the start of an
\* identifier (NG), at its end (GN), inside it (GNG).
TokenTexts ==
    UNION { [1..n -> {"N", "G", SP}] : n \in 1..MaxTokens }

(***************************************************************************)
(* define_macro, add_include_path, reset                                   *)
(***************************************************************************)
PreprocessorIdle == pp_pc # "run"

\* The caller's next call: what the last process_source or process_file
\* returned and logged is the caller's to keep or drop, not the
\* preprocessor's.
ProcessLocalsDropped ==
    /\ pp_pc' = "idle"
    /\ pp_stack' = <<>>
    /\ pp_result' = <<>>
    /\ pp_log' = <<>>

\* self.macros[name] = value: a new key goes last, a known key keeps its
\* place.
MacroSet(items, name, value) ==
    IF \E i \in DOMAIN items : items[i][1] = name
    THEN [i \in DOMAIN items |->
             IF items[i][1] = name THEN <<name, value>> ELSE items[i]]
    ELSE Append(items, <<name, value>>)

define_macro(name, value) ==
    /\ PreprocessorIdle
    /\ pp_calls < MaxPreprocessorCalls
    /\ macros' = MacroSet(macros, name, value)
    /\ pp_calls' = pp_calls + 1
    /\ ProcessLocalsDropped
    /\ UNCHANGED <<include_paths, processed_includes, epoch_vars, met,
                   expanded, replaced>>
    /\ UNCHANGED <<all_mapper_vars, all_table_vars>>

add_include_path(path) ==
    /\ PreprocessorIdle
    /\ pp_calls < MaxPreprocessorCalls
    /\ include_paths' = IF \E i \in DOMAIN include_paths :
                              include_paths[i] = path
                        THEN include_paths
                        ELSE Append(include_paths, path)
    /\ pp_calls' = pp_calls + 1
    /\ ProcessLocalsDropped
    /\ UNCHANGED <<macros, processed_includes, epoch_vars, met, expanded,
                   replaced>>
    /\ UNCHANGED <<all_mapper_vars, all_table_vars>>

\* The include specs whose expansions are remembered across a reset().
Watched == { <<"a.h">> }

\* self.processed_includes.clear(), as a value; and a reset() that forgets
\* to clear the set.
ProcessedCleared_Kept == processed_includes
ProcessedCleared == {}

reset ==
    /\ PreprocessorIdle
    /\ pp_resets < MaxResets
    /\ macros' = <<>>
    /\ include_paths' = <<>>
    /\ processed_includes' = ProcessedCleared
    /\ pp_resets' = pp_resets + 1
    /\ expanded_earlier' =
          expanded_earlier
              \cup ({ expanded[i] : i \in DOMAIN expanded } \cap Watched)
    /\ pp_calls' = 0
    /\ met' = {}
    /\ expanded' = <<>>
    /\ replaced' = {}
    /\ ProcessLocalsDropped
    /\ UNCHANGED <<all_mapper_vars, all_table_vars>>

(***************************************************************************)
(* process_source, process_file                                            *)
(***************************************************************************)
\* An active process_source(source, ...) call.  at is the statement it
\* is in: "includes" (inside the re.sub of _process_includes, whose scan of
\* source has reached pos and which has produced out so far), "macros"
\* (before _expand_macros, out being the text), or "conditionals" (before
\* _process_conditionals).  by is the caller.  plain is out as it would be
\* had no process_source called from here, at whatever depth, expanded
\* macros.
Source(source, pos, out, at, by, plain) ==
    [source |-> source, pos |-> pos, out |-> out, at |-> at, by |-> by,
     plain |-> plain]

\* The callers of process_source: the user, process_file, and
\* replace_include for the directive it is replacing, with the spec and
\* the directories its loop has not tried yet.
ByCaller(op) == [op |-> op, spec |-> <<>>, directive |-> <<>>, rest |-> <<>>]
ByInclude(spec, directive, rest) ==
    [op |-> "replace_include", spec |-> spec, directive |-> directive,
     rest |-> rest]

Called(source, by) == Source(source, 1, <<>>, "includes", by, <<>>)

Current == pp_stack[Len(pp_stack)]
Callers == SubSeq(pp_stack, 1, Len(pp_stack) - 1)
CurrentMatch == NextMatch(Current.source, Current.pos)
InIncludes == pp_pc = "run" /\ Current.at = "includes"

\* The match re.sub hands to replace_include next, if the call is there.
Matches == IF InIncludes THEN {CurrentMatch} ELSE {}

\* A replace_include that gives up with the empty string.
Directive_Dropped(m) == <<>>

\* match.group(0)
Directive(m) == SubSeq(Current.source, m.start, m.end)

\* The current call with the text up to the match m copied and the
\* directive replaced by replacement.
Replaced(m, replacement) ==
    LET copied == SubSeq(Current.source, Current.pos, m.start - 1)
                      \o replacement
    IN  Source(Current.source, m.end + 1, Current.out \o copied, "includes",
               Current.by, Current.plain \o copied)

\* The stack once the current call is over and replace_include has
\* returned text to the re.sub of the call before it.
Resumed(text, plain) ==
    LET caller == Callers[Len(Callers)] IN
    SubSeq(Callers, 1, Len(Callers) - 1)
        \o <<Source(caller.source, caller.pos, caller.out \o text,
                    "includes", caller.by, caller.plain \o plain)>>

Warning(message, include_path) == <<"warning", message, include_path>>

\* A loop that gives up at the first file it cannot read.
RECURSIVE Searched_UntilError(_, _, _)
Searched_UntilError(dirs, include_path, warnings) ==
    IF dirs = <<>>
    THEN [found |-> FALSE, content |-> <<>>, rest |-> <<>>,
          warnings |-> warnings]
    ELSE LET file == FileAt(Joined(Head(dirs), include_path)) IN
         IF file.exists /\ file.readable
         THEN [found |-> TRUE, content |-> file.content, rest |-> Tail(dirs),
               warnings |-> warnings]
         ELSE IF file.exists
         THEN [found |-> FALSE, content |-> <<>>, rest |-> <<>>,
               warnings |-> Append(warnings,
                   <<"warning", "Error processing include", include_path>>)]
         ELSE Searched_UntilError(Tail(dirs), include_path, warnings)

\* for include_dir in self.include_paths: the first directory where the
\* file exists and can be read ends the loop; a file that exists and cannot
\* be read is logged and the loop goes on.
RECURSIVE Searched(_, _, _)
Searched(dirs, include_path, warnings) ==
    IF dirs = <<>>
    THEN [found |-> FALSE, content |-> <<>>, rest |-> <<>>,
          warnings |-> Append(warnings,
                Warning("Could not find include file", include_path))]
    ELSE LET file == FileAt(Joined(Head(dirs), include_path)) IN
         IF file.exists /\ file.readable
         THEN [found |-> TRUE, content |-> file.content, rest |-> Tail(dirs),
               warnings |-> warnings]
         ELSE Searched(Tail(dirs), include_path,
                       IF file.exists
                       THEN Append(warnings,
                              Warning("Error processing include", include_path))
                       ELSE warnings)

\* A replace_include without the test.
IsProcessed_Never(include_path) == FALSE

\* if include_path in self.processed_includes
IsProcessed(include_path) == include_path \in processed_includes

\* A replace_include that does not mark the spec.
Marked_Never(include_path) == processed_includes

\* self.processed_includes.add(include_path)
Marked(include_path) == processed_includes \cup {include_path}

Handled(include_path, outcome) ==
    /\ met' = met \cup {include_path}
    /\ replaced' = replaced \cup {<<include_path, include_path \in met, outcome>>}

process_source(source, current_file) ==
    /\ PreprocessorIdle
    /\ pp_calls < MaxPreprocessorCalls
    /\ pp_calls' = pp_calls + 1
    /\ pp_pc' = "run"
    /\ pp_stack' = <<Called(source, ByCaller("process_source"))>>
    /\ pp_result' = <<>>
    /\ pp_log' = <<>>
    /\ UNCHANGED <<preprocessor_vars, epoch_vars, met, expanded, replaced>>
    /\ UNCHANGED <<all_mapper_vars, all_table_vars>>

process_file(file_path) ==
    /\ PreprocessorIdle
    /\ pp_calls < MaxPreprocessorCalls
    /\ pp_calls' = pp_calls + 1
    /\ LET file == FileAt(<<file_path>>) IN
       IF file.exists /\ file.readable
       THEN /\ pp_pc' = "run"
            /\ pp_stack' = <<Called(file.content, ByCaller("process_file"))>>
            /\ pp_log' = <<>>
       ELSE \* open() raises; the handler logs and evaluates `source`,
            \* which was never bound: UnboundLocalError leaves the call.
            /\ pp_pc' = "raised"
            /\ pp_stack' = <<>>
            /\ pp_log' = <<<<"error", "Error processing file", <<file_path>> >>>>
    /\ pp_result' = <<>>
    /\ UNCHANGED <<preprocessor_vars, epoch_vars, met, expanded, replaced>>
    /\ UNCHANGED <<all_mapper_vars, all_table_vars>>

\* replace_include on a spec already processed: return ""
IncludeAgain(match) ==
    /\ match.ok
    /\ IsProcessed(match.spec)
    /\ pp_stack' = Append(Callers, Replaced(match, <<>>))
    /\ Handled(match.spec, "empty")
    /\ UNCHANGED <<preprocessor_vars, pp_pc, pp_result, pp_log, pp_calls,
                   epoch_vars, expanded>>
    /\ UNCHANGED <<all_mapper_vars, all_table_vars>>

\* replace_include on a new spec whose file is found: the spec is marked
\* and process_source is called on the file's content; what it returns
\* will replace the directive.
IncludeExpand(match) ==
    /\ match.ok
    /\ ~IsProcessed(match.spec)
    /\ LET found == Searched(include_paths, match.spec, <<>>) IN
       /\ found.found
       /\ pp_log' = pp_log \o found.warnings
       /\ pp_stack' = Append(Callers, Replaced(match, <<>>))
                         \o <<Called(found.content,
                                     ByInclude(match.spec, Directive(match),
                                               found.rest))>>
    /\ processed_includes' = Marked(match.spec)
    /\ expanded' = Append(expanded, match.spec)
    /\ Handled(match.spec, "expanded")
    /\ UNCHANGED <<macros, include_paths, pp_pc, pp_result, pp_calls,
                   epoch_vars>>
    /\ UNCHANGED <<all_mapper_vars, all_table_vars>>

\* replace_include on a new spec that no directory yields: the spec is
\* marked, a warning logged, and the directive returned as it was.
IncludeNotFound(match) ==
    /\ match.ok
    /\ ~IsProcessed(match.spec)
    /\ LET found == Searched(include_paths, match.spec, <<>>) IN
       /\ ~found.found
       /\ pp_log' = pp_log \o found.warnings
    /\ pp_stack' = Append(Callers,
          Replaced(match, Directive(match)))
    /\ processed_includes' = Marked(match.spec)
    /\ Handled(match.spec, "unchanged")
    /\ UNCHANGED <<macros, include_paths, pp_pc, pp_result, pp_calls,
                   epoch_vars, expanded>>
    /\ UNCHANGED <<all_mapper_vars, all_table_vars>>

\* No directive is left in the current source: re.sub copies the rest and
\* _process_includes returns.
IncludesReturn ==
    /\ InIncludes
    /\ \A match \in Matches : ~match.ok
    /\ LET rest == From(Current.source, Current.pos) IN
       pp_stack' = Append(Callers,
          Source(Current.source, Len(Current.source) + 1,
                 Current.out \o rest, "macros", Current.by,
                 Current.plain \o rest))
    /\ UNCHANGED <<preprocessor_vars, pp_pc, pp_result, pp_log, history_vars>>
    /\ UNCHANGED <<all_mapper_vars, all_table_vars>>

InMacros == pp_pc = "run" /\ Current.at = "macros"

\* source = self._expand_macros(source)
MacrosReturn ==
    /\ InMacros
    /\ ~Raises(macros)
    /\ pp_stack' = Append(Callers,
          Source(Current.source, Current.pos, _expand_macros(Current.out),
                 "conditionals", Current.by, Current.plain))
    /\ UNCHANGED <<preprocessor_vars, pp_pc, pp_result, pp_log, history_vars>>
    /\ UNCHANGED <<all_mapper_vars, all_table_vars>>

\* _expand_macros raises in a process_source the user called: nothing
\* catches it.
SourceRaise ==
    /\ InMacros
    /\ Raises(macros)
    /\ Current.by.op = "process_source"
    /\ pp_pc' = "raised"
    /\ pp_stack' = <<>>
    /\ UNCHANGED <<preprocessor_vars, pp_result, pp_log, history_vars>>
    /\ UNCHANGED <<all_mapper_vars, all_table_vars>>

\* _expand_macros raises in the process_source that process_file called:
\* the handler logs the error and returns the text it read.
FileRaise ==
    /\ InMacros
    /\ Raises(macros)
    /\ Current.by.op = "process_file"
    /\ pp_log' = Append(pp_log, <<"error", "Error processing file", <<>> >>)
    /\ pp_result' = Current.source
    /\ pp_pc' = "returned"
    /\ pp_stack' = <<>>
    /\ UNCHANGED <<preprocessor_vars, history_vars>>
    /\ UNCHANGED <<all_mapper_vars, all_table_vars>>

\* _expand_macros raises in a process_source that replace_include called:
\* the handler in the loop logs a warning and the loop goes on with the
\* directories after the one the file was in.
IncludeRaise ==
    /\ InMacros
    /\ Raises(macros)
    /\ Current.by.op = "replace_include"
    /\ LET by == Current.by
           found == Searched(by.rest, by.spec,
                       <<Warning("Error processing include", by.spec)>>)
       IN  /\ pp_log' = pp_log \o found.warnings
           /\ IF found.found
              THEN /\ pp_stack' = Append(Callers,
                         Called(found.content,
                                ByInclude(by.spec, by.directive, found.rest)))
                   /\ expanded' = Append(expanded, by.spec)
              ELSE /\ pp_stack' = Resumed(by.directive, by.directive)
                   /\ UNCHANGED expanded
    /\ UNCHANGED <<preprocessor_vars, pp_pc, pp_result, pp_calls, epoch_vars,
                   met, replaced>>
    /\ UNCHANGED <<all_mapper_vars, all_table_vars>>

InConditionals == pp_pc = "run" /\ Current.at = "conditionals"

\* source = self._process_conditionals(source); return source, from a
\* process_source that replace_include called: replace_include returns the
\* text, which re.sub puts in the directive's place.
IncludeReturn ==
    /\ InConditionals
    /\ Callers # <<>>
    /\ pp_stack' = Resumed(_process_conditionals(Current.out),
                           _process_conditionals(Current.plain))
    /\ UNCHANGED <<preprocessor_vars, pp_pc, pp_result, pp_log, history_vars>>
    /\ UNCHANGED <<all_mapper_vars, all_table_vars>>

\* The same two statements in the outermost process_source: the text goes
\* to the caller.
SourceReturn ==
    /\ InConditionals
    /\ Callers = <<>>
    /\ pp_result' = _process_conditionals(Current.out)
    /\ pp_pc' = "returned"
    /\ pp_stack' = <<>>
    /\ UNCHANGED <<preprocessor_vars, pp_log, history_vars>>
    /\ UNCHANGED <<all_mapper_vars, all_table_vars>>

ProcessStep ==
    \/ \E match \in Matches : IncludeAgain(match)
    \/ \E match \in Matches : IncludeExpand(match)
    \/ \E match \in Matches : IncludeNotFound(match)
    \/ IncludesReturn
    \/ MacrosReturn
    \/ SourceRaise
    \/ FileRaise
    \/ IncludeRaise
    \/ IncludeReturn
    \/ SourceReturn

(***************************************************************************)
(* SymbolTable (core/parser/symbol_table.py).  A text is a sequence of     *)
(* atoms, as above; a type node of the AST is a record with the node's     *)
(* class and the attributes _get_type_string reads.                        *)
(***************************************************************************)
SymbolNames == {"x", "f"}
Kinds == {"variable", "function", "struct"}
Scopes == {"global", "block"}
ReferenceFiles == {"a.c"}
None == [name |-> ""]

IdentifierType(names) == [class |-> "IdentifierType", names |-> names]
PtrDecl(type) == [class |-> "PtrDecl", type |-> type]
ArrayDecl(type) == [class |-> "ArrayDecl", type |-> type]
TypeDecl(type) == [class |-> "TypeDecl", type |-> type]
Tagged(class, name) == [class |-> class, name |-> name]

\* The type nodes declarations of the model carry.
TypeNodes ==
    { IdentifierType(<<"unsigned", "int">>),
      PtrDecl(IdentifierType(<<"int">>)),
      ArrayDecl(Tagged("Struct", "s")),
      Tagged("Enum", ""),
      TypeDecl(IdentifierType(<<"int">>)) }

\* ' '.join(names)
RECURSIVE Spaced(_)
Spaced(names) ==
    IF names = <<>> THEN <<>>
    ELSE IF Len(names) = 1 THEN <<names[1]>>
    ELSE <<names[1], SP>> \o Spaced(Tail(names))

RECURSIVE _get_type_string(_)
_get_type_string(type_node) ==
    CASE type_node.class = "IdentifierType" -> Spaced(type_node.names)
      [] type_node.class = "PtrDecl" ->
            <<"pointer to ">> \o _get_type_string(type_node.type)
      [] type_node.class = "ArrayDecl" ->
            <<"array of ">> \o _get_type_string(type_node.type)
      [] type_node.class = "Struct" ->
            IF type_node.name # "" THEN <<"struct ", type_node.name>>
            ELSE <<"anonymous struct">>
      [] type_node.class = "Union" ->
            IF type_node.name # "" THEN <<"union ", type_node.name>>
            ELSE <<"anonymous union">>
      [] type_node.class = "Enum" ->
            IF type_node.name # "" THEN <<"enum ", type_node.name>>
            ELSE <<"anonymous enum">>
      [] OTHER -> <<"str", type_node>>

TypeInfos == { _get_type_string(type_node) : type_node \in TypeNodes }

\* Symbol.__init__
Symbol(name, kind, type_info, scope) ==
    [name |-> name, kind |-> kind, type_info |-> type_info, scope |-> scope,
     references |-> {}]

\* An add_symbol without the test.
IsInTable_Never(name) == FALSE

\* if symbol.name in self.symbols
IsInTable(name) == name \in DOMAIN symbols

\* self.symbols.get(name)
get_symbol(name) == IF name \in DOMAIN symbols THEN symbols[name] ELSE None

\* SymbolTable.add_symbol, as every add_ method ends in it.
SymbolAdded(symbol) ==
    /\ IF IsInTable(symbol.name)
       THEN /\ table_log' = Append(table_log,
                   <<"warning", "already exists in table", symbol.name>>)
            /\ UNCHANGED <<symbols, symbols_keys>>
       ELSE /\ symbols' = [n \in DOMAIN symbols \cup {symbol.name} |->
                              IF n = symbol.name THEN symbol ELSE symbols[n]]
            /\ symbols_keys' = IF symbol.name \in DOMAIN symbols
                               THEN symbols_keys
                               ELSE Append(symbols_keys, symbol.name)
            /\ UNCHANGED table_log
    /\ first_added' = IF symbol.name \in DOMAIN first_added THEN first_added
                      ELSE [n \in DOMAIN first_added \cup {symbol.name} |->
                              IF n = symbol.name THEN symbol
                              ELSE first_added[n]]

TableCalled ==
    /\ table_calls < MaxTableCalls
    /\ table_calls' = table_calls + 1
    /\ UNCHANGED <<all_mapper_vars, all_preprocessor_vars>>

add_symbol(symbol) ==
    /\ TableCalled
    /\ SymbolAdded(symbol)

\* func_def.decl.name and func_def.decl.type
add_function(name, type_node) ==
    /\ TableCalled
    /\ SymbolAdded(Symbol(name, "function", _get_type_string(type_node),
                          "global"))

add_variable(name, type_node, scope) ==
    /\ TableCalled
    /\ SymbolAdded(Symbol(name, "variable", _get_type_string(type_node),
                          scope))

\* struct.name and the names of struct.decls; a struct without a name is
\* not added.
add_struct(name, fields) ==
    /\ TableCalled
    /\ IF name = ""
       THEN UNCHANGED <<symbols, symbols_keys, table_log, first_added>>
       ELSE SymbolAdded(Symbol(name, "struct",
                               <<"struct with fields: ">> \o
                                   (IF fields = <<>> THEN <<>>
                                    ELSE <<fields[1]>>), "global"))

\* Symbol.add_reference on the Symbol that get_symbol(name) returned.
add_reference(name, file_path) ==
    /\ TableCalled
    /\ IsInTable(name)
    /\ symbols' = [symbols EXCEPT ![name].references = @ \cup {file_path}]
    /\ UNCHANGED <<symbols_keys, table_log, first_added>>

\* self.symbols.values(), filtered
get_all_symbols == [i \in DOMAIN symbols_keys |-> symbols[symbols_keys[i]]]
get_symbols_by_kind(kind) ==
    SelectSeq(get_all_symbols, LAMBDA symbol : symbol.kind = kind)
get_symbols_by_scope(scope) ==
    SelectSeq(get_all_symbols, LAMBDA symbol : symbol.scope = scope)

\* The three objects as their constructors leave them, the preprocessor's
\* macro table and search path apart.
Constructed ==
    /\ dependencies = EmptyMap
    /\ dependencies_keys = <<>>
    /\ reverse_dependencies = EmptyMap
    /\ file_symbols = EmptyMap
    /\ symbol_files = EmptyMap
    /\ calls = 0
    /\ last = Call("__init__", NoPath, NoPath, NoSymbol)
    /\ defined = {}
    /\ early_references = {}
    /\ queried = {}
    /\ pc = "idle"
    /\ visited = {}
    /\ temp_mark = {}
    /\ order = <<>>
    /\ key_index = 0
    /\ stack = <<>>
    /\ log = <<>>
    /\ components = <<>>
    /\ symbols = EmptyMap
    /\ symbols_keys = <<>>
    /\ table_log = <<>>
    /\ table_calls = 0
    /\ first_added = EmptyMap
    /\ processed_includes = {}
    /\ pp_pc = "idle"
    /\ pp_stack = <<>>
    /\ pp_result = <<>>
    /\ pp_log = <<>>
    /\ pp_calls = 0
    /\ pp_resets = 0
    /\ expanded_earlier = {}
    /\ met = {}
    /\ expanded = <<>>
    /\ replaced = {}

Init ==
    /\ Constructed
    /\ macros = <<>>
    /\ include_paths = <<>>

\* A preprocessor that define_macro and add_include_path calls have
\* configured, before its first process_source or process_file.
ConfiguredInit ==
    /\ Constructed
    /\ macros \in MacroTables
    /\ include_paths \in PathLists

Next ==
    \/ \E s \in Paths, t \in Paths : add_file_dependency(s, t)
    \/ \E p \in Paths, n \in Symbols : add_symbol_definition(p, n)
    \/ \E p \in Paths, n \in Symbols : add_symbol_reference(p, n)
    \/ get_dependency_order
    \/ get_strongly_connected_components
    \/ NextFile
    \/ VisitDependency
    \/ VisitReturn
    \/ OrderReturn

Spec == Init /\ [][Next]_vars

\* The calls that fill the four maps, the four getters and the two
\* traversals.
QueryNext ==
    \/ \E s \in Paths, t \in Paths : add_file_dependency(s, t)
    \/ \E p \in Paths, n \in Symbols : add_symbol_definition(p, n)
    \/ \E p \in Paths : GetFileDependencies(p)
    \/ \E p \in Paths : GetFileDependents(p)
    \/ \E p \in Paths : GetFileSymbols(p)
    \/ \E n \in Symbols : GetSymbolFiles(n)
    \/ get_dependency_order
    \/ get_strongly_connected_components
    \/ NextFile
    \/ VisitDependency
    \/ VisitReturn
    \/ OrderReturn

QuerySpec == Init /\ [][QueryNext]_vars

\* The code is synchronous: a get_dependency_order() that has been called
\* keeps taking steps until it returns or raises.
FairSpec == Spec /\ WF_vars(OrderStep)

PreprocessorNext ==
    \/ \E name \in MacroNames, value \in MacroValues : define_macro(name, value)
    \/ \E path \in IncludeDirs : add_include_path(path)
    \/ reset
    \/ \E source \in Sources : process_source(source, "main.c")
    \/ \E file_path \in TopFiles : process_file(file_path)
    \/ \E match \in Matches : IncludeAgain(match)
    \/ \E match \in Matches : IncludeExpand(match)
    \/ \E match \in Matches : IncludeNotFound(match)
    \/ IncludesReturn
    \/ MacrosReturn
    \/ IncludeReturn
    \/ SourceReturn

PreprocessorSpec == Init /\ [][PreprocessorNext]_vars

\* The calls on a configured preprocessor, with the steps that a macro
\* value re.sub rejects brings.
ConfiguredNext ==
    \/ \E source \in Sources \cup TokenTexts : process_source(source, "main.c")
    \/ \E file_path \in TopFiles : process_file(file_path)
    \/ \E match \in Matches : IncludeAgain(match)
    \/ \E match \in Matches : IncludeExpand(match)
    \/ \E match \in Matches : IncludeNotFound(match)
    \/ IncludesReturn
    \/ MacrosReturn
    \/ SourceRaise
    \/ FileRaise
    \/ IncludeRaise
    \/ IncludeReturn
    \/ SourceReturn

ConfiguredSpec == ConfiguredInit /\ [][ConfiguredNext]_vars

\* process_source on texts of directive lines, which hold no #include.
ConditionalsNext ==
    \/ \E source \in LineTexts : process_source(source, "main.c")
    \/ IncludesReturn
    \/ MacrosReturn
    \/ SourceReturn

ConditionalsSpec == Init /\ [][ConditionalsNext]_vars

\* process_source on texts with an #include inside a conditional, by a
\* preprocessor that add_include_path("inc") was called on.
RegionInit ==
    /\ Constructed
    /\ macros = <<>>
    /\ include_paths = <<"inc">>

RegionNext ==
    \/ \E source \in RegionSources : process_source(source, "main.c")
    \/ \E match \in Matches : IncludeAgain(match)
    \/ \E match \in Matches : IncludeExpand(match)
    \/ \E match \in Matches : IncludeNotFound(match)
    \/ IncludesReturn
    \/ MacrosReturn
    \/ IncludeReturn
    \/ SourceReturn

RegionSpec == RegionInit /\ [][RegionNext]_vars

TableNext ==
    \/ \E name \in SymbolNames, kind \in Kinds, type_info \in TypeInfos,
          scope \in Scopes : add_symbol(Symbol(name, kind, type_info, scope))
    \/ \E name \in SymbolNames, type_node \in TypeNodes :
          add_function(name, type_node)
    \/ \E name \in SymbolNames, type_node \in TypeNodes, scope \in Scopes :
          add_variable(name, type_node, scope)
    \/ \E name \in SymbolNames \cup {""}, fields \in {<<>>, <<"m">>} :
          add_struct(name, fields)
    \/ \E name \in SymbolNames, file_path \in ReferenceFiles :
          add_reference(name, file_path)

TableSpec == Init /\ [][TableNext]_vars

\* The code is synchronous: a process_source that has been called keeps
\* taking steps until it returns.
FairPreprocessorSpec == PreprocessorSpec /\ WF_vars(ProcessStep)

(***************************************************************************)
(* The dependency graph, as the properties below speak of it.              *)
(***************************************************************************)
\* source -> target is an edge: source depends on target.
Edge(source, target) == target \in Get(dependencies, source)

\* The files that are the source or the target of at least one edge.
Nodes == { f \in Files : \E g \in Files : Edge(f, g) \/ Edge(g, f) }

RECURSIVE Closure(_)
Closure(S) ==
    LET T == S \cup UNION { Get(dependencies, f) : f \in S }
    IN  IF T = S THEN S ELSE Closure(T)

\* The files reachable from f along one edge or more.
Reach(f) == Closure(Get(dependencies, f))

Cyclic == \E f \in Files : f \in Reach(f)

Range(seq) == { seq[i] : i \in DOMAIN seq }
Position(seq, f) == CHOOSE i \in DOMAIN seq : seq[i] = f
IsBefore(seq, f, g) ==
    /\ f \in Range(seq)
    /\ g \in Range(seq)
    /\ Position(seq, f) < Position(seq, g)

Returned == pc = "returned"

(***************************************************************************)
(* C1.  On an acyclic graph, however it was built, the sequence that       *)
(* get_dependency_order() returns holds every file strictly after every    *)
(* file it depends on.                                                     *)
(***************************************************************************)
C1_AcyclicOrderIsTopological ==
    (Returned /\ ~Cyclic) =>
        \A f \in Files, g \in Files : Edge(f, g) => IsBefore(order, g, f)

\* A -> B -> C was built and the order C, B, A was returned.
C1_Witness ==
    /\ Returned
    /\ ~Cyclic
    /\ \E a \in Files, b \in Files, c \in Files :
          /\ Edge(a, b) /\ Edge(b, c)
          /\ order = <<c, b, a>>

(***************************************************************************)
(* C2.  Cyclic or not, the sequence that get_dependency_order() returns    *)
(* holds every node of the graph (every file that is the source or the     *)
(* target of an edge) exactly once.                                        *)
(***************************************************************************)
C2_OrderHoldsEveryNodeOnce ==
    Returned =>
        /\ Range(order) = Nodes
        /\ Len(order) = Cardinality(Nodes)

\* An order was returned for a graph with a cycle in which some file is
\* the target of two edges.
C2_Witness ==
    /\ Returned
    /\ Cyclic
    /\ \E f \in Files : Cardinality(Get(reverse_dependencies, f)) >= 2
    /\ Cardinality(Nodes) = 3
    /\ Len(order) = 3

(***************************************************************************)
(* C3.  get_dependency_order() terminates on every graph, cycles included: *)
(* a call that has started returns; no file is entered while it is marked  *)
(* 'currently visiting' or after it was visited (the active visit() calls  *)
(* are of distinct files, exactly the marked ones, none of them visited);  *)
(* the marker set is empty at the return; nothing is raised.               *)
(***************************************************************************)
ActiveFiles == { stack[i].file_path : i \in DOMAIN stack }

NoReentry ==
    /\ \A i \in DOMAIN stack, j \in DOMAIN stack :
          stack[i].file_path = stack[j].file_path => i = j
    /\ ActiveFiles = temp_mark
    /\ temp_mark \cap visited = {}
    /\ Len(order) = Cardinality(visited)

C3_OrderTerminates ==
    /\ (pc = "order") ~> Returned
    /\ [](NoReentry)
    /\ [](Returned => temp_mark = {})
    /\ [](pc # "raised")

\* The call returned on the graph A -> B, B -> A, with both files in the
\* order and the cycle met.
C3_Witness ==
    /\ Returned
    /\ \E a \in Files, b \in Files :
          /\ a # b
          /\ Edge(a, b) /\ Edge(b, a)
          /\ Nodes = {a, b}
          /\ Range(order) = {a, b}
    /\ temp_mark = {}
    /\ log # <<>>

(***************************************************************************)
(* C4.  Whenever the graph has a cycle, get_dependency_order() logs at     *)
(* least one circular-dependency warning and the call still returns an     *)
(* order of all the nodes: the cycle is reported by logging only, and      *)
(* nothing is raised.                                                      *)
(***************************************************************************)
C4_CycleIsLoggedNotRaised ==
    /\ pc # "raised"
    /\ (Returned /\ Cyclic) =>
          /\ log # <<>>
          /\ Range(order) = Nodes

\* A cycle of three files was built, one warning was logged and the order
\* of the three files returned.
C4_Witness ==
    /\ Returned
    /\ \E a \in Files, b \in Files, c \in Files :
          /\ a # b /\ b # c /\ a # c
          /\ Edge(a, b) /\ Edge(b, c) /\ Edge(c, a)
    /\ Len(log) = 1
    /\ Len(order) = 3

(***************************************************************************)
(* C5.  In every state the mutators can reach, the two adjacency maps are  *)
(* exact inverses: target is in dependencies[source] if and only if source *)
(* is in reverse_dependencies[target].                                     *)
(***************************************************************************)
C5_AdjacencyMapsAreInverses ==
    /\ \A source \in Files, target \in Files :
          target \in Get(dependencies, source)
              <=> source \in Get(reverse_dependencies, target)
    /\ DOMAIN dependencies \subseteq Files
    /\ DOMAIN reverse_dependencies \subseteq Files
    /\ \A f \in DOMAIN dependencies : dependencies[f] \subseteq Files
    /\ \A f \in DOMAIN reverse_dependencies :
          reverse_dependencies[f] \subseteq Files

\* add_symbol_reference has just added edges to the two files that define
\* the symbol.
C5_Witness ==
    /\ last.op = "add_symbol_reference"
    /\ Cardinality(get_file_dependencies(last.path)) = 2
    /\ get_file_dependencies(last.path) = get_symbol_files(last.symbol)

(***************************************************************************)
(* C6.  No file ever depends on itself.  In every reachable state          *)
(* get_file_dependencies(a) does not hold a; add_file_dependency(a, a'),   *)
(* for any two spellings of one file, changes none of the maps, and        *)
(* neither does add_symbol_reference(a, s) for a symbol that a alone       *)
(* defines.                                                                *)
(***************************************************************************)
NoSelfDependency ==
    \A p \in Paths : resolve(p) \notin get_file_dependencies(p)

SelfRequestIsNoOp ==
    LET self_edge ==
            /\ last'.op = "add_file_dependency"
            /\ resolve(last'.path) = resolve(last'.target)
        self_reference ==
            /\ last'.op = "add_symbol_reference"
            /\ Get(symbol_files, last'.symbol) = {resolve(last'.path)}
    IN  (calls' = calls + 1 /\ (self_edge \/ self_reference))
            => UNCHANGED mapper_vars

C6_NoFileDependsOnItself ==
    /\ [](NoSelfDependency)
    /\ [][SelfRequestIsNoOp]_vars

\* add_file_dependency was just called with two different spellings of one
\* file, which defines a symbol as well.
C6_Witness ==
    /\ last.op = "add_file_dependency"
    /\ last.path # last.target
    /\ resolve(last.path) = resolve(last.target)
    /\ get_file_symbols(last.path) # {}

\* add_symbol_reference(a, s) was just called for a symbol a itself defines.
C6_WitnessReference ==
    /\ last.op = "add_symbol_reference"
    /\ resolve(last.path) \in get_symbol_files(last.symbol)

(***************************************************************************)
(* C7.  As claimed: for every f1, f2 and s, an add_symbol_reference(f2, s) *)
(* made after add_symbol_definition(f1, s) leaves the resolved f1 in       *)
(* get_file_dependencies(f2).  This fails when f2 is f1 itself, in any     *)
(* spelling: the edge would be a self-edge, and is dropped.                *)
(***************************************************************************)
C7_ReferenceDependsOnEveryDefiner ==
    last.op = "add_symbol_reference" =>
        \A d \in defined :
            d[2] = last.symbol
                => resolve(d[1]) \in get_file_dependencies(last.path)

(***************************************************************************)
(* C7, amended.  For every f1, f2 and s such that f1 and f2 resolve to     *)
(* different files, an add_symbol_reference(f2, s) made after              *)
(* add_symbol_definition(f1, s) leaves the resolved f1 in                  *)
(* get_file_dependencies(f2).                                              *)
(***************************************************************************)
C7_ReferenceDependsOnEveryOtherDefiner ==
    last.op = "add_symbol_reference" =>
        \A d \in defined :
            (d[2] = last.symbol /\ resolve(d[1]) # resolve(last.path))
                => resolve(d[1]) \in get_file_dependencies(last.path)

\* A symbol was defined in two files, under spellings that are not their
\* resolved form, and then referenced from a third.
C7_Witness ==
    /\ last.op = "add_symbol_reference"
    /\ \E d \in defined, e \in defined :
          /\ d[2] = last.symbol /\ e[2] = last.symbol
          /\ resolve(d[1]) # resolve(e[1])
          /\ resolve(d[1]) # resolve(last.path)
          /\ resolve(e[1]) # resolve(last.path)
          /\ d[1] # resolve(d[1])
          /\ {resolve(d[1]), resolve(e[1])}
                \subseteq get_file_dependencies(last.path)

(***************************************************************************)
(* C8.  The symbol index maps are exact inverses in every reachable state: *)
(* s is in file_symbols[f] if and only if f is in symbol_files[s].  Once   *)
(* add_symbol_definition(f, s) has been called, get_file_symbols(f) holds  *)
(* s and get_symbol_files(s) holds the resolved f, whatever is called      *)
(* afterwards.                                                             *)
(***************************************************************************)
C8_SymbolMapsAreInverses ==
    /\ \A f \in Files, s \in Symbols :
          s \in Get(file_symbols, f) <=> f \in Get(symbol_files, s)
    /\ DOMAIN file_symbols \subseteq Files
    /\ DOMAIN symbol_files \subseteq Symbols
    /\ \A f \in DOMAIN file_symbols : file_symbols[f] \subseteq Symbols
    /\ \A s \in DOMAIN symbol_files : symbol_files[s] \subseteq Files
    /\ \A d \in defined :
          /\ d[2] \in get_file_symbols(d[1])
          /\ resolve(d[1]) \in get_symbol_files(d[2])

\* Two definitions were recorded, one under a spelling that is not the
\* file's resolved form; an edge was added and a get_dependency_order() has
\* returned after them.
C8_Witness ==
    /\ Returned
    /\ dependencies_keys # <<>>
    /\ Cardinality(defined) = 2
    /\ \E d \in defined : d[1] # resolve(d[1])

(***************************************************************************)
(* What the preprocessor properties speak of.                              *)
(***************************************************************************)
\* How many times the file of include_path has been expanded since
\* construction or the last reset().
Expansions(include_path) ==
    Cardinality({ i \in DOMAIN expanded : expanded[i] = include_path })

\* Every include spec a directive of the model's texts and files names.
Specs == { <<name>> : name \in FileNames }

(***************************************************************************)
(* C9.  Between construction or a reset() and the next reset(), over any   *)
(* sequence of process_source / process_file calls, each include spec is   *)
(* expanded at most once: the first directive met for a spec marks the     *)
(* spec processed and is not replaced by the empty string, and every       *)
(* later directive for that spec, wherever it stands, is replaced by the   *)
(* empty string.                                                           *)
(***************************************************************************)
C9_EachSpecExpandsAtMostOnce ==
    /\ \A include_path \in met \cup Range(expanded) :
          Expansions(include_path) <= 1
    /\ processed_includes = met
    /\ \A r \in replaced : r[2] <=> (r[3] = "empty")

\* By the return of a second top-level call, a.h and b.h have each been
\* expanded once, and a later directive for each has been replaced by the
\* empty string.
C9_Witness ==
    /\ pp_pc = "returned"
    /\ Expansions(<<"a.h">>) = 1
    /\ Expansions(<<"b.h">>) = 1
    /\ <<<<"a.h">>, TRUE, "empty">> \in replaced
    /\ <<<<"b.h">>, TRUE, "empty">> \in replaced

(***************************************************************************)
(* C10.  process_source terminates, also on headers that include each      *)
(* other or themselves: a call that has started returns (it does not run   *)
(* for ever, and the only way it stops running is by returning); include   *)
(* expansion never expands a spec that is in processed_includes; and the   *)
(* number of nested expansions is at most the number of distinct include   *)
(* specs.                                                                  *)
(***************************************************************************)
NestedExpansions == IF pp_stack = <<>> THEN 0 ELSE Len(pp_stack) - 1

ExpandsOnlyNewSpecs ==
    Len(expanded') > Len(expanded)
        => expanded'[Len(expanded')] \notin processed_includes

StopsByReturning == pp_pc = "run" /\ pp_pc' # "run" => pp_pc' = "returned"

C10_ProcessSourceTerminates ==
    /\ []<>(pp_pc # "run")
    /\ [][StopsByReturning]_vars
    /\ [](NestedExpansions <= Cardinality(processed_includes))
    /\ [](processed_includes \subseteq Specs)
    /\ [][ExpandsOnlyNewSpecs]_vars

\* The call returned after expanding a.h, b.h inside it, and meeting the
\* directive for a.h inside b.h.
C10_Witness ==
    /\ pp_pc = "returned"
    /\ expanded = << <<"a.h">>, <<"b.h">> >>
    /\ replaced = { <<<<"a.h">>, FALSE, "expanded">>,
                    <<<<"b.h">>, FALSE, "expanded">>,
                    <<<<"a.h">>, TRUE, "empty">> }
    /\ pp_result # <<>>

\* A call on a header that includes itself returned.
C10_WitnessSelf ==
    /\ pp_pc = "returned"
    /\ expanded = << <<"s.h">> >>
    /\ <<<<"s.h">>, TRUE, "empty">> \in replaced

(***************************************************************************)
(* C19.  get_strongly_connected_components() returns one-directional       *)
(* reachability clusters: the roots are, in the key order of               *)
(* dependencies, the files with outgoing edges that no earlier component   *)
(* holds; each component is its root together with the files reachable    *)
(* from the root, less the files of the earlier components; and every      *)
(* file that is an endpoint of an edge is in exactly one component.        *)
(***************************************************************************)
ComponentsReturned == last.op = "get_strongly_connected_components"

\* The files of the components before the i-th.
PlacedBefore(i) == UNION { components[j] : j \in 1..(i - 1) }

\* The keys of dependencies that the components before the i-th leave.
RootsLeft(i) ==
    { k \in DOMAIN dependencies_keys : dependencies_keys[k] \notin PlacedBefore(i) }

RootOf(i) ==
    dependencies_keys[CHOOSE k \in RootsLeft(i) : \A j \in RootsLeft(i) : k <= j]

C19_ComponentsAreReachabilityClusters ==
    ComponentsReturned =>
        /\ \A i \in DOMAIN components :
              /\ RootsLeft(i) # {}
              /\ components[i] =
                    ({RootOf(i)} \cup Reach(RootOf(i))) \ PlacedBefore(i)
        /\ RootsLeft(Len(components) + 1) = {}
        /\ \A f \in Nodes :
              Cardinality({ i \in DOMAIN components : f \in components[i] }) = 1
        /\ DOMAIN dependencies = Range(dependencies_keys)
        /\ \A f \in DOMAIN dependencies : dependencies[f] # {}

\* Two components were returned, and the second root reaches a file that
\* the first component had taken.
C19_Witness ==
    /\ ComponentsReturned
    /\ Len(components) = 2
    /\ Cardinality(components[1]) = 2
    /\ Reach(RootOf(2)) \cap components[1] # {}

(***************************************************************************)
(* C20.  Each set get_strongly_connected_components() returns is a         *)
(* strongly connected component: any two of its files reach each other,   *)
(* and no file outside it reaches and is reached by its files.             *)
(***************************************************************************)
MutuallyReachable(f, g) == f = g \/ (g \in Reach(f) /\ f \in Reach(g))

IsStronglyConnectedComponent(S) ==
    /\ \A f \in S, g \in S : MutuallyReachable(f, g)
    /\ \A g \in Nodes \ S : \E f \in S : ~MutuallyReachable(f, g)

C20_ComponentsAreStronglyConnected ==
    ComponentsReturned =>
        \A i \in DOMAIN components : IsStronglyConnectedComponent(components[i])

(***************************************************************************)
(* C18.  After any sequence of add calls on one SymbolTable,               *)
(* get_symbol(name) is the first symbol that was added under the name,     *)
(* with that call's kind, scope and type_info; a later add of the same     *)
(* name, whatever its kind or scope, leaves the table unchanged and logs   *)
(* a warning; and no operation removes a symbol.                           *)
(***************************************************************************)
Described(symbol) == <<symbol.name, symbol.kind, symbol.type_info, symbol.scope>>

FirstIsKept ==
    /\ DOMAIN symbols = DOMAIN first_added
    /\ \A name \in DOMAIN first_added :
          Described(get_symbol(name)) = Described(first_added[name])
    /\ \A name \in SymbolNames \ DOMAIN first_added : get_symbol(name) = None

NothingRemoved ==
    \A name \in DOMAIN symbols :
        /\ name \in DOMAIN symbols'
        /\ Described(symbols'[name]) = Described(symbols[name])

RejectedWithWarning ==
    table_log' # table_log =>
        /\ symbols' = symbols
        /\ Len(table_log') = Len(table_log) + 1
        /\ table_log'[Len(table_log')][3] \in DOMAIN symbols

C18_FirstSymbolWins ==
    /\ [](FirstIsKept)
    /\ [][NothingRemoved /\ RejectedWithWarning]_vars

\* x was added as a variable and then as a function in another scope: the
\* table holds the variable and one warning was logged.
C18_Witness ==
    /\ table_calls = 2
    /\ "x" \in DOMAIN symbols
    /\ symbols["x"].kind = "variable"
    /\ symbols["x"].scope = "block"
    /\ table_log = << <<"warning", "already exists in table", "x">> >>

(***************************************************************************)
(* C11.  After a header spec has been expanded, a reset() followed by      *)
(* processing source that includes the same spec expands the header        *)
(* again: the first directive met for the spec after the reset is neither  *)
(* replaced by the empty string nor left in place.  As the claim states    *)
(* it, for whatever the preprocessor holds after the reset.                *)
(***************************************************************************)
\* The first directive since the last reset() for a spec that was expanded
\* before it is the next one replace_include gets.
MeetsAgain(m) == m.ok /\ m.spec \in expanded_earlier /\ m.spec \notin met

\* replace_include expands the directive: process_source is entered for
\* the spec.
ExpandsAgain(m) ==
    /\ expanded' = Append(expanded, m.spec)
    /\ Len(pp_stack') = Len(pp_stack) + 1

C11_ResetExpandsAgain ==
    [][\A m \in Matches : MeetsAgain(m) => ExpandsAgain(m)]_vars

(***************************************************************************)
(* C11, amended.  reset() leaves the preprocessor as a constructed one:    *)
(* no macro, no include path, no processed spec.  The first directive met  *)
(* after it for a spec expanded before it is expanded again provided a     *)
(* directory added since the reset holds a readable file for the spec;     *)
(* with the search path empty, as reset() leaves it, the directive stays.  *)
(***************************************************************************)
\* Some directory of the search path holds a file for the spec that can be
\* read.
Reachable(include_path) ==
    \E i \in DOMAIN include_paths :
        LET file == FileAt(Joined(include_paths[i], include_path)) IN
        file.exists /\ file.readable

AsConstructed ==
    macros = <<>> /\ include_paths = <<>> /\ processed_includes = {}

ResetAsConstructed == pp_resets' > pp_resets => AsConstructed'

ExpandsAgainIfReachable ==
    \A m \in Matches :
        MeetsAgain(m) =>
            IF Reachable(m.spec) THEN ExpandsAgain(m)
            ELSE /\ UNCHANGED expanded
                 /\ Len(pp_stack') = Len(pp_stack)
                 /\ Current'.out = Current.out
                        \o SubSeq(Current.source, Current.pos, m.end)

C11_ResetExpandsAgainWithPath ==
    [][ResetAsConstructed /\ ExpandsAgainIfReachable]_vars

\* a.h was expanded, reset() was called, and a call made after it has
\* expanded a.h again and returned.
C11_Witness ==
    /\ pp_resets = 1
    /\ <<"a.h">> \in expanded_earlier
    /\ \E i \in DOMAIN expanded : expanded[i] = <<"a.h">>
    /\ pp_pc = "returned"
    /\ pp_result # <<>>

(***************************************************************************)
(* C12.  When a directive names a spec that is not yet processed and no    *)
(* directory of the search path contains the file, process_source logs a   *)
(* warning, leaves the directive's text unchanged in the output, and does  *)
(* not raise.  As the claim states it, for the text process_source         *)
(* returns: every spec the call logged as not found still has its          *)
(* directive in the returned text.                                         *)
(***************************************************************************)
NotFound(include_path) == Warning("Could not find include file", include_path)

Logged(entry) == \E i \in DOMAIN pp_log : pp_log[i] = entry

\* The text holds a directive for the spec.
Includes(text, include_path) ==
    \E i \in DOMAIN text :
        MatchAt(text, i).ok /\ MatchAt(text, i).spec = include_path

C12_MissingIncludeStaysInOutput ==
    pp_pc = "returned" =>
        \A include_path \in Specs :
            Logged(NotFound(include_path)) => Includes(pp_result, include_path)

(***************************************************************************)
(* C12, amended.  Include expansion (the first of the three steps) logs    *)
(* one warning, puts the directive's own text in the directive's place     *)
(* and goes on with the rest of the text, and the call does not raise.     *)
(* The directive is then text like any other for the two later steps: a    *)
(* conditional region around it removes it from the output.                *)
(***************************************************************************)
\* No directory of the search path holds a file for the spec.
Absent(include_path) ==
    \A i \in DOMAIN include_paths :
        ~FileAt(Joined(include_paths[i], include_path)).exists

MissingIncludeIsKept ==
    \A m \in Matches :
        m.ok /\ m.spec \notin processed_includes /\ Absent(m.spec) =>
            /\ pp_log' = Append(pp_log, NotFound(m.spec))
            /\ pp_pc' = "run"
            /\ Len(pp_stack') = Len(pp_stack)
            /\ Current'.source = Current.source
            /\ Current'.pos = m.end + 1
            /\ Current'.out = Current.out
                   \o SubSeq(Current.source, Current.pos, m.end)

NoRaiseWhileRunning == pp_pc = "run" => pp_pc' # "raised"

C12_MissingIncludeIsKeptByExpansion ==
    [][MissingIncludeIsKept /\ NoRaiseWhileRunning]_vars

\* A call returned having logged that m.h was not found, with the
\* directive for m.h in the text it returned.
C12_Witness ==
    /\ pp_pc = "returned"
    /\ Logged(NotFound(<<"m.h">>))
    /\ Includes(pp_result, <<"m.h">>)

(***************************************************************************)
(* C13.  process_file never raises: when the file is missing or cannot be  *)
(* read, the failure is logged and a text is returned to the caller.       *)
(* No call of the preprocessor ends by raising.                            *)
(***************************************************************************)
C13_ProcessFileNeverRaises == pp_pc # "raised"

(***************************************************************************)
(* C14.  If reading an include file fails during include expansion, the    *)
(* error is caught and logged and process_source returns the original      *)
(* unprocessed source text rather than raising.  As the claim states it:   *)
(* a call of process_source that logged a read error returns the text it   *)
(* was called with.                                                        *)
(***************************************************************************)
ReadError(include_path) == Warning("Error processing include", include_path)

ReturnsToCaller == pp_pc = "run" /\ pp_pc' = "returned"

ReturnsOriginalOnReadError ==
    ReturnsToCaller /\ (\E include_path \in Specs : Logged(ReadError(include_path)))
        => pp_result' = pp_stack[1].source

C14_ReadErrorReturnsOriginal == [][ReturnsOriginalOnReadError]_vars

(***************************************************************************)
(* C14, amended.  A read error on an include file is caught where the      *)
(* file is read and logged as a warning, and the search goes on with the   *)
(* directories that follow: the first of them that holds a readable file   *)
(* is expanded; if there is none the directive stays in place with a       *)
(* second warning.  Either way the call goes on with the rest of the text  *)
(* and does not raise.                                                     *)
(***************************************************************************)
Holds(i, include_path) == FileAt(Joined(include_paths[i], include_path))

\* The directories whose file for the spec can be read.
ReadableAt(include_path) ==
    { i \in DOMAIN include_paths :
        Holds(i, include_path).exists /\ Holds(i, include_path).readable }

\* The directories the loop reaches whose file for the spec cannot be read.
FailingAt(include_path) ==
    { i \in DOMAIN include_paths :
        /\ Holds(i, include_path).exists
        /\ ~Holds(i, include_path).readable
        /\ \A j \in ReadableAt(include_path) : i < j }

ReadErrorsSince(include_path) ==
    Cardinality({ i \in DOMAIN pp_log' :
                    i > Len(pp_log) /\ pp_log'[i] = ReadError(include_path) })

ReadErrorIsSkipped ==
    \A m \in Matches :
        m.ok /\ m.spec \notin processed_includes /\ FailingAt(m.spec) # {} =>
            /\ pp_pc' = "run"
            /\ ReadErrorsSince(m.spec) = Cardinality(FailingAt(m.spec))
            /\ IF ReadableAt(m.spec) # {}
               THEN /\ ExpandsAgain(m)
                    /\ Current'.source =
                         Holds(CHOOSE i \in ReadableAt(m.spec) :
                                 \A j \in ReadableAt(m.spec) : i <= j,
                               m.spec).content
               ELSE /\ pp_log'[Len(pp_log')] = NotFound(m.spec)
                    /\ Len(pp_stack') = Len(pp_stack)
                    /\ Current'.out = Current.out
                           \o SubSeq(Current.source, Current.pos, m.end)

C14_ReadErrorIsSkipped ==
    [][ReadErrorIsSkipped /\ NoRaiseWhileRunning]_vars

\* With inc before sys on the search path, a call logged the read error
\* on inc/u.h, expanded sys/u.h in its place and returned.
C14_Witness ==
    /\ pp_pc = "returned"
    /\ Logged(ReadError(<<"u.h">>))
    /\ ~Logged(NotFound(<<"u.h">>))
    /\ \E i \in DOMAIN expanded : expanded[i] = <<"u.h">>
    /\ \E i \in DOMAIN pp_result : pp_result[i] = "U"

\* With inc alone on the search path, a call logged the read error on
\* inc/u.h, left the directive and returned a text in which the macro M
\* is expanded.
C14_WitnessLeft ==
    /\ pp_pc = "returned"
    /\ Logged(ReadError(<<"u.h">>))
    /\ Logged(NotFound(<<"u.h">>))
    /\ Includes(pp_result, <<"u.h">>)
    /\ \E i \in DOMAIN pp_result : pp_result[i] = "1"

(***************************************************************************)
(* C15.  Macro substitution is word-boundary safe: in a text of            *)
(* identifier and non-identifier tokens, the pass for a macro replaces     *)
(* exactly the tokens equal to the macro's name by the macro's             *)
(* replacement text, and leaves an identifier that only contains the name. *)
(* As the claim states it, for every macro table: the macro step of a      *)
(* call ends with the text in which each macro's pass, in definition       *)
(* order, has done that.                                                   *)
(***************************************************************************)
\* Atoms i and i + 1 belong to one token.
Glued(text, i) ==
    /\ i \in DOMAIN text /\ (i + 1) \in DOMAIN text
    /\ LastIsWord(text[i]) /\ FirstIsWord(text[i + 1])

\* The last atom of the token that starts at i.
RECURSIVE TokenEnd(_, _)
TokenEnd(text, i) == IF Glued(text, i) THEN TokenEnd(text, i + 1) ELSE i

\* The text with every token equal to name replaced by value, from the
\* token that starts at i on.
RECURSIVE TokensReplaced(_, _, _, _)
TokensReplaced(text, name, value, i) ==
    IF i > Len(text) THEN <<>>
    ELSE LET j == TokenEnd(text, i)
             token == SubSeq(text, i, j)
         IN  (IF token = name THEN value ELSE token)
                 \o TokensReplaced(text, name, value, j + 1)

\* One such pass per macro, in definition order, with the values as
\* defined.
RECURSIVE EachReplaced(_, _)
EachReplaced(items, text) ==
    IF items = <<>> THEN text
    ELSE EachReplaced(Tail(items),
            TokensReplaced(text, Head(items)[1], Head(items)[2], 1))

MacroStepReplacesTokens ==
    InMacros =>
        /\ pp_pc' = "run"
        /\ Len(pp_stack') = Len(pp_stack)
        /\ Current'.out = EachReplaced(macros, Current.out)

C15_MacroTokensAreReplaced == [][MacroStepReplacesTokens]_vars

(***************************************************************************)
(* C16.  Macro expansion is a single linear pass per macro in definition   *)
(* order, with no re-scan: in the output of one top-level process_source   *)
(* call every piece of text, from the top-level source or from an          *)
(* expanded include, has had each macro substituted over it exactly once.  *)
(* As the claim states it: the macro step of the top-level call leaves     *)
(* the text that one pass per macro makes of the include-expanded text as  *)
(* it is without the passes of the nested calls.                           *)
(***************************************************************************)
\* The macro table with each value as re.sub's template reads it.
Compiled(items) ==
    [i \in DOMAIN items |-> <<items[i][1], Template(items[i][2]).text>>]

\* One pass per macro, in definition order.
PassedOnce(text) == EachReplaced(Compiled(macros), text)

TopLevelTextPassedOnce ==
    InMacros /\ Callers = <<>> /\ ~Raises(macros) =>
        Current'.out = PassedOnce(Current.plain)

C16_EveryTextPassedOnce == [][TopLevelTextPassedOnce]_vars

(***************************************************************************)
(* C16, amended.  Each process_source call, the top-level one and the one  *)
(* made for each expanded include, makes a single pass per macro in        *)
(* definition order over its whole text after include expansion, and the   *)
(* text a nested call returns is put into the caller's text before the     *)
(* caller's passes.  Text from an include is therefore passed once by the  *)
(* call made for it and once more by every enclosing call, and a macro     *)
(* name that a later-defined macro introduced there is expanded by the     *)
(* enclosing call.                                                         *)
(***************************************************************************)
EachCallPassesOnce ==
    InMacros /\ ~Raises(macros) =>
        /\ Len(pp_stack') = Len(pp_stack)
        /\ Current'.at = "conditionals"
        /\ Current'.out = PassedOnce(Current.out)

IncludedTextJoinsCaller ==
    InConditionals /\ Callers # <<>> =>
        /\ Len(pp_stack') = Len(pp_stack) - 1
        /\ Current'.at = "includes"
        /\ Current'.out = Callers[Len(Callers)].out
                              \o _process_conditionals(Current.out)

C16_EachCallPassesOnce ==
    [][EachCallPassesOnce /\ IncludedTextJoinsCaller]_vars

\* With M -> 1 defined before N -> M, a call returned a text in which the
\* N of the included b.h has become 1 and the N of the top-level source
\* has become M.
C16_Witness ==
    /\ pp_pc = "returned"
    /\ macros = << <<<<"M">>, <<"1">>>>, <<<<"N">>, <<"M">>>> >>
    /\ expanded = << <<"a.h">>, <<"b.h">> >>
    /\ pp_result = <<NL, "1", NL, "A", NL, NL, "M", SP, "N", "G">>

(***************************************************************************)
(* C17.  Conditional elision is an unconditional, non-nesting line filter: *)
(* the output lines are exactly the input lines, in order and unmodified,  *)
(* that lie outside every skip region.  A skip region starts at a line     *)
(* whose stripped text begins with #if, #ifdef or #ifndef and ends at,     *)
(* and includes, the first following line whose stripped text begins with  *)
(* #endif, whatever the nesting, or runs to the end of the text; and       *)
(* unbalanced input never raises.                                          *)
(***************************************************************************)
Breaks(text) == { i \in DOMAIN text : text[i] = NL }

\* The position of the k-th line break; 0 before the first line and one
\* past the text after the last.
BreakAt(text, k) ==
    IF k = 0 THEN 0
    ELSE IF k > Cardinality(Breaks(text)) THEN Len(text) + 1
    ELSE CHOOSE p \in Breaks(text) :
            Cardinality({ q \in Breaks(text) : q <= p }) = k

LineNumbers(text) == 1..(Cardinality(Breaks(text)) + 1)

Line(text, k) == SubSeq(text, BreakAt(text, k - 1) + 1, BreakAt(text, k) - 1)

\* The line's stripped text begins with one of the words.
BeginsWith(line, words) ==
    \E i \in DOMAIN line :
        line[i] \in words /\ \A j \in 1..(i - 1) : line[j] \in Whitespace

Opens(text, k) == BeginsWith(Line(text, k), {"#if", "#ifdef", "#ifndef"})
Closes(text, k) == BeginsWith(Line(text, k), {"#endif"})

\* Line k is an opening line, or follows one with no closing line between
\* the two.
InSkipRegion(text, k) ==
    \/ Opens(text, k)
    \/ \E j \in 1..(k - 1) :
          Opens(text, j) /\ \A m \in (j + 1)..(k - 1) : ~Closes(text, m)

RECURSIVE LinesJoined(_, _)
LinesJoined(text, numbers) ==
    IF numbers = {} THEN <<>>
    ELSE LET k == CHOOSE n \in numbers : \A m \in numbers : n <= m IN
         IF numbers = {k} THEN Line(text, k)
         ELSE Line(text, k) \o <<NL>> \o LinesJoined(text, numbers \ {k})

\* The lines outside every skip region, in order, joined by line breaks.
Elided(text) ==
    LinesJoined(text, { k \in LineNumbers(text) : ~InSkipRegion(text, k) })

ConditionalStepElides ==
    InConditionals /\ Callers = <<>> =>
        /\ pp_pc' = "returned"
        /\ pp_result' = Elided(Current.out)

C17_ConditionalsAreLineFilter == [][ConditionalStepElides]_vars

\* A call returned a text that keeps an #endif line and the line after
\* it: the #endif of an unbalanced text, or the second #endif after a
\* region that the first one ended.
C17_Witness ==
    /\ pp_pc = "returned"
    /\ pp_result = <<SP, "#endif", SP, "Z", NL, "N", SP, "#ifdef">>

(***************************************************************************)
(* C21.  add_symbol_reference(f, s) adds an edge from f to every file in   *)
(* symbol_files[s] other than f itself, with the matching inverse edges,   *)
(* and changes nothing else: afterwards dependencies[f] is what it was     *)
(* united with symbol_files[s] less f, every other file's outgoing edges   *)
(* are what they were, each definer other than f has gained f as a         *)
(* dependent and no file anything else, no key was created but for those   *)
(* edges, and file_symbols and symbol_files are untouched.                 *)
(***************************************************************************)
ReferenceMade == calls' = calls + 1 /\ last'.op = "add_symbol_reference"

ReferenceAddsItsEdgesOnly ==
    ReferenceMade =>
        LET f == resolve(last'.path)
            definers == Get(symbol_files, last'.symbol) \ {f}
        IN  /\ Get(dependencies', f) = Get(dependencies, f) \cup definers
            /\ \A g \in Files \ {f} :
                  Get(dependencies', g) = Get(dependencies, g)
            /\ \A g \in Files :
                  Get(reverse_dependencies', g) =
                      Get(reverse_dependencies, g)
                          \cup (IF g \in definers THEN {f} ELSE {})
            /\ DOMAIN dependencies' =
                  DOMAIN dependencies \cup (IF definers = {} THEN {} ELSE {f})
            /\ DOMAIN reverse_dependencies' =
                  DOMAIN reverse_dependencies \cup definers
            /\ UNCHANGED <<file_symbols, symbol_files>>

C21_ReferenceAddsItsEdgesOnly == [][ReferenceAddsItsEdgesOnly]_vars

\* A symbol that two files define was just referenced from one of the two:
\* the file depends on the other definer and not on itself.
C21_Witness ==
    /\ last.op = "add_symbol_reference"
    /\ Cardinality(get_symbol_files(last.symbol)) = 2
    /\ resolve(last.path) \in get_symbol_files(last.symbol)
    /\ get_file_dependencies(last.path) =
          get_symbol_files(last.symbol) \ {resolve(last.path)}
    /\ \A g \in get_file_dependencies(last.path) :
          get_file_dependents(g) = {resolve(last.path)}

(***************************************************************************)
(* C22.  Cyclic or not, the sequence get_dependency_order() returns        *)
(* respects every edge that is not on a cycle: for every edge u -> v such  *)
(* that u is not reachable from v, v stands before u.                      *)
(***************************************************************************)
C22_OrderRespectsEdgesOffCycles ==
    Returned =>
        \A u \in Files, v \in Files :
            (Edge(u, v) /\ u \notin Reach(v)) => IsBefore(order, v, u)

\* An order was returned for a graph in which a and b depend on each other
\* and c depends on a: c stands after a, and one of the two edges of the
\* cycle is not respected.
C22_Witness ==
    /\ Returned
    /\ \E a \in Files, b \in Files, c \in Files :
          /\ a # b /\ b # c /\ a # c
          /\ Edge(a, b) /\ Edge(b, a) /\ Edge(c, a)
          /\ IsBefore(order, a, c)
          /\ IsBefore(order, a, b) /\ ~IsBefore(order, b, a)

(***************************************************************************)
(* C23.  get_dependency_order() and get_strongly_connected_components()    *)
(* cover exactly the files that are an endpoint of at least one edge: a    *)
(* file the mapper knows only through add_symbol_definition, or only       *)
(* through a self-edge request that was dropped, is in neither result.     *)
(***************************************************************************)
\* The files the mapper has been told of as the definers of a symbol.
DefinerFiles == { resolve(d[1]) : d \in defined }

\* The files of the components returned.
ComponentFiles == UNION { components[i] : i \in DOMAIN components }

C23_ResultsCoverEdgeEndpointsOnly ==
    /\ Returned =>
          /\ Range(order) = Nodes
          /\ Range(order) \cap (DefinerFiles \ Nodes) = {}
    /\ ComponentsReturned =>
          /\ ComponentFiles = Nodes
          /\ ComponentFiles \cap (DefinerFiles \ Nodes) = {}
    /\ DOMAIN dependencies \subseteq Nodes

\* An order was returned that holds the two ends of the one edge and not
\* the file that only defines a symbol.
C23_Witness ==
    /\ Returned
    /\ Len(order) = 2
    /\ DefinerFiles \ Nodes # {}
    /\ calls = 2

\* Components were returned after an edge, a definition in a third file
\* and a call that changed no map: the third file is in no component.
C23_WitnessComponents ==
    /\ ComponentsReturned
    /\ calls = 3
    /\ Cardinality(Nodes) = 2
    /\ ComponentFiles = Nodes
    /\ DefinerFiles \ Nodes # {}

(***************************************************************************)
(* C24.  get_dependency_order() logs no circular-dependency warning on an  *)
(* acyclic graph.  The marked files are exactly the files of the active    *)
(* visit() calls, which form a path of edges from the file the outer loop  *)
(* started with; so a file is found marked only when it is an ancestor on  *)
(* the current path, and every warning names a file that lies on a cycle.  *)
(***************************************************************************)
StackIsPath ==
    \A i \in 1..(Len(stack) - 1) :
        Edge(stack[i].file_path, stack[i + 1].file_path)

C24_WarningsOnlyOnCycles ==
    /\ temp_mark = ActiveFiles
    /\ StackIsPath
    /\ \A i \in DOMAIN log : log[i] \in Reach(log[i])
    /\ ~Cyclic => log = <<>>

\* An order was returned without a warning for an acyclic graph of three
\* edges in which one file is reached along two paths.
C24_Witness ==
    /\ Returned
    /\ ~Cyclic
    /\ log = <<>>
    /\ \E a \in Files, b \in Files, c \in Files :
          /\ Edge(a, b) /\ Edge(a, c) /\ Edge(b, c)
          /\ order = <<c, b, a>>

(***************************************************************************)
(* C25.  Dependency inference is not retroactive.  An                      *)
(* add_symbol_reference(f, s) made while no file defines s changes none of *)
(* the maps, and a later add_symbol_definition(g, s) does not create the   *)
(* edge f -> g: an add_symbol_definition changes no edge at all, so the    *)
(* edge is there afterwards only if it was there before, and a reference   *)
(* from f made after the definition does create it.                        *)
(***************************************************************************)
DefinitionMade == calls' = calls + 1 /\ last'.op = "add_symbol_definition"

EarlyReferenceChangesNothing ==
    (ReferenceMade /\ Get(symbol_files, last'.symbol) = {})
        => UNCHANGED mapper_vars

DefinitionAddsNoEdge ==
    DefinitionMade =>
        /\ UNCHANGED <<dependencies, dependencies_keys, reverse_dependencies>>
        /\ \A r \in early_references :
              r[2] = last'.symbol =>
                  (resolve(last'.path) \in Get(dependencies', r[1])
                      <=> Edge(r[1], resolve(last'.path)))

LateReferenceAddsEdge ==
    ReferenceMade =>
        \A g \in Get(symbol_files, last'.symbol) \ {resolve(last'.path)} :
            g \in Get(dependencies', resolve(last'.path))

C25_InferenceIsNotRetroactive ==
    [][EarlyReferenceChangesNothing /\ DefinitionAddsNoEdge
         /\ LateReferenceAddsEdge]_vars

\* A symbol was referenced from one file while nothing defined it and has
\* just been defined in another: there is no edge between the two.
C25_Witness ==
    /\ last.op = "add_symbol_definition"
    /\ \E r \in early_references :
          /\ r[2] = last.symbol
          /\ r[1] # resolve(last.path)
          /\ ~Edge(r[1], resolve(last.path))
          /\ get_symbol_files(last.symbol) = {resolve(last.path)}
    /\ dependencies = EmptyMap

\* The same file has then referenced the symbol again, and depends on the
\* definer.
C25_WitnessLater ==
    /\ last.op = "add_symbol_reference"
    /\ <<resolve(last.path), last.symbol>> \in early_references
    /\ get_symbol_files(last.symbol) # {}
    /\ get_file_dependencies(last.path) = get_symbol_files(last.symbol)

(***************************************************************************)
(* C26.  replace_include adds the spec to processed_includes before it     *)
(* looks for the file, so a spec that no directory yields (none holds it,  *)
(* or reading it fails) stays marked: its first occurrence is left as it   *)
(* is, and every later occurrence before the next reset() is replaced by   *)
(* the empty string, even when a search path added in the meantime would   *)
(* now yield the file.                                                     *)
(***************************************************************************)
\* Some directory of the search path holds a readable file for the spec.
Resolvable(include_path) ==
    \E i \in DOMAIN include_paths :
        LET file == FileAt(Joined(include_paths[i], include_path)) IN
        file.exists /\ file.readable

\* The spec was left unchanged by a replace_include since the last reset().
LeftUnchanged(include_path) ==
    \E again \in BOOLEAN : <<include_path, again, "unchanged">> \in replaced

\* replace_include, called on the match m, returns text to re.sub.
ReplacedBy(m, text) ==
    /\ Len(pp_stack') = Len(pp_stack)
    /\ Current'.source = Current.source
    /\ Current'.pos = m.end + 1
    /\ Current'.out = Current.out
           \o SubSeq(Current.source, Current.pos, m.start - 1) \o text

UnresolvableIsMarkedAndKept ==
    \A m \in Matches :
        m.ok /\ m.spec \notin processed_includes /\ ~Resolvable(m.spec) =>
            /\ processed_includes' = processed_includes \cup {m.spec}
            /\ ReplacedBy(m, SubSeq(Current.source, m.start, m.end))

LaterOccurrenceIsEmpty ==
    \A m \in Matches :
        m.ok /\ LeftUnchanged(m.spec) =>
            /\ ReplacedBy(m, <<>>)
            /\ UNCHANGED <<processed_includes, pp_log>>

\* Only a first occurrence is left unchanged, and its spec stays marked.
UnchangedStaysMarked ==
    \A include_path \in Specs :
        LeftUnchanged(include_path) =>
            /\ include_path \in processed_includes
            /\ <<include_path, TRUE, "unchanged">> \notin replaced

C26_UnresolvedSpecStaysMarked ==
    /\ []UnchangedStaysMarked
    /\ [][UnresolvableIsMarkedAndKept /\ LaterOccurrenceIsEmpty]_vars

\* A spec was left unchanged when no directory yielded it, a search path
\* that holds its file was added, and a later occurrence of the spec was
\* replaced by the empty string.
C26_Witness ==
    \E include_path \in Specs :
        /\ <<include_path, FALSE, "unchanged">> \in replaced
        /\ <<include_path, TRUE, "empty">> \in replaced
        /\ Resolvable(include_path)

(***************************************************************************)
(* C27.  Include expansion runs before conditional elision, so an #include *)
(* inside a conditional skip region is still expanded and its spec marked  *)
(* processed; the expanded text is then discarded with the region, and a   *)
(* later occurrence of the spec outside any conditional expands to empty   *)
(* text, so that the header's content appears nowhere in the output.  As   *)
(* the claim states it, for a text whose directives all lie in a skip      *)
(* region or repeat a spec of an earlier directive, and with no macro      *)
(* defined: the call returns what conditional elision makes of the text    *)
(* without its directives.                                                 *)
(***************************************************************************)
\* The number of the line that holds position i.
LineOf(text, i) == Cardinality({ q \in Breaks(text) : q < i }) + 1

\* The positions where a directive starts.
DirectivesOf(text) == { i \in DOMAIN text : MatchAt(text, i).ok }

\* Every directive of the text lies in a skip region of the text, or
\* names the spec of a directive before it.
IncludesOnlyInRegions(text) ==
    \A i \in DirectivesOf(text) :
        \/ InSkipRegion(text, LineOf(text, i))
        \/ \E j \in DirectivesOf(text) :
              j < i /\ MatchAt(text, j).spec = MatchAt(text, i).spec

\* The text with every directive taken out.
RECURSIVE WithoutDirectives(_, _)
WithoutDirectives(text, i) ==
    LET m == NextMatch(text, i) IN
    IF ~m.ok THEN From(text, i)
    ELSE SubSeq(text, i, m.start - 1) \o WithoutDirectives(text, m.end + 1)

RegionIncludeLeavesNothing ==
    (InConditionals /\ Callers = <<>> /\ macros = <<>>
        /\ IncludesOnlyInRegions(Current.source)) =>
            pp_result' = Elided(WithoutDirectives(Current.source, 1))

C27_RegionIncludeLeavesNothing == [][RegionIncludeLeavesNothing]_vars

(***************************************************************************)
(* C27, amended.  An #include inside a skip region is expanded and its     *)
(* spec marked as anywhere else, and a later occurrence of the spec is     *)
(* replaced by the empty string.  The expanded text is discarded with the  *)
(* region, and the call returns what elision makes of the text without     *)
(* its directives, when the text that replaced the directives holds no     *)
(* line starting with #endif.  When it holds one (what process_source      *)
(* returns for a header with nested conditionals does), the region ends at *)
(* that line and the header's text after it is in the output.              *)
(***************************************************************************)
EndifLines(text) == { k \in LineNumbers(text) : Closes(text, k) }

RegionIncludeIsExpanded ==
    \A m \in Matches :
        (m.ok /\ InSkipRegion(Current.source, LineOf(Current.source, m.start))
            /\ m.spec \notin processed_includes /\ Resolvable(m.spec)) =>
                /\ processed_includes' = processed_includes \cup {m.spec}
                /\ expanded' = Append(expanded, m.spec)
                /\ Len(pp_stack') = Len(pp_stack) + 1
                /\ Current'.by.op = "replace_include"
                /\ Current'.by.spec = m.spec

MarkedIncludeIsEmpty ==
    \A m \in Matches :
        (m.ok /\ m.spec \in processed_includes) => ReplacedBy(m, <<>>)

RegionIncludeIsDiscarded ==
    (InConditionals /\ Callers = <<>> /\ macros = <<>>
        /\ IncludesOnlyInRegions(Current.source)
        /\ Cardinality(EndifLines(Current.out))
              = Cardinality(EndifLines(Current.source))) =>
            pp_result' = Elided(WithoutDirectives(Current.source, 1))

C27_RegionIncludeIsDiscardedUpToEndif ==
    [][RegionIncludeIsExpanded /\ MarkedIncludeIsEmpty
         /\ RegionIncludeIsDiscarded]_vars

\* A call returned for a text that includes a.h inside a skip region and
\* again after it: a.h and the b.h it includes were expanded, and nothing
\* of them is in the text returned.
C27_Witness ==
    /\ pp_pc = "returned"
    /\ expanded = << <<"a.h">>, <<"b.h">> >>
    /\ <<<<"a.h">>, TRUE, "empty">> \in replaced
    /\ pp_result = <<NL, "Z">>

\* The same for e.h: the line after its second #endif, the region's own
\* #endif and the rest of the text were returned.
C27_WitnessLeft ==
    /\ pp_pc = "returned"
    /\ expanded = << <<"e.h">> >>
    /\ pp_result = <<"B", NL, "#endif", NL, NL, "Z">>

(***************************************************************************)
(* C28.  get_strongly_connected_components() never splits a strongly       *)
(* connected component: two files that reach each other along the edges   *)
(* are in the same returned component, in whatever order the edges were    *)
(* added, so that each returned component is a union of strongly           *)
(* connected components.                                                   *)
(***************************************************************************)
C28_ComponentsAreNeverSplit ==
    ComponentsReturned =>
        /\ \A f \in Nodes, g \in Nodes :
              (g \in Reach(f) /\ f \in Reach(g)) =>
                  \E i \in DOMAIN components : {f, g} \subseteq components[i]
        /\ \A i \in DOMAIN components : \A f \in components[i] :
              { g \in Nodes : g \in Reach(f) /\ f \in Reach(g) }
                  \subseteq components[i]

\* Three files on one cycle were returned as one component, and the key
\* order of dependencies is not the order of the cycle.
C28_Witness ==
    /\ ComponentsReturned
    /\ Len(components) = 1
    /\ Cardinality(components[1]) = 3
    /\ \A f \in components[1] : Reach(f) = components[1]
    /\ Len(dependencies_keys) = 3
    /\ ~Edge(dependencies_keys[1], dependencies_keys[2])

\* Two files on a cycle were returned in one component with a third file
\* that is on no cycle.
C28_WitnessUnion ==
    /\ ComponentsReturned
    /\ \E i \in DOMAIN components : \E f \in components[i], g \in components[i] :
          /\ f # g /\ MutuallyReachable(f, g)
          /\ \E h \in components[i] : h \notin Reach(h)

(***************************************************************************)
(* C29.  The six queries leave the four maps unchanged, key sets           *)
(* included: every step that is not a call of one of the three add_...     *)
(* operations leaves them as they were; a getter returns the set stored    *)
(* under the key, or an empty set when there is none, without creating an  *)
(* entry; so no map ever holds a key with nothing under it, and a file     *)
(* that was only queried is in no later get_dependency_order() result.     *)
(***************************************************************************)
Mutators ==
    {"add_file_dependency", "add_symbol_definition", "add_symbol_reference"}

Getters ==
    {"get_file_dependencies", "get_file_dependents", "get_file_symbols",
     "get_symbol_files"}

\* What the map the getter reads holds under the key, if it has the key.
Stored(op, key) ==
    CASE op = "get_file_dependencies" ->
            IF key \in DOMAIN dependencies THEN dependencies[key] ELSE {}
      [] op = "get_file_dependents" ->
            IF key \in DOMAIN reverse_dependencies
            THEN reverse_dependencies[key] ELSE {}
      [] op = "get_file_symbols" ->
            IF key \in DOMAIN file_symbols THEN file_symbols[key] ELSE {}
      [] op = "get_symbol_files" ->
            IF key[1] \in DOMAIN symbol_files
            THEN symbol_files[key[1]] ELSE {}

QueriesChangeNothing ==
    ~(calls' = calls + 1 /\ last'.op \in Mutators) => UNCHANGED mapper_vars

GetterReturnsStored ==
    (calls' = calls + 1 /\ last'.op \in Getters) =>
        \E q \in queried' :
            /\ q.op = last'.op
            /\ q.key = (IF q.op = "get_symbol_files" THEN <<last'.symbol>>
                        ELSE resolve(last'.path))
            /\ q.result = Stored(q.op, q.key)
            /\ queried' = queried \cup {q}

NoEmptyEntry ==
    /\ \A k \in DOMAIN dependencies : dependencies[k] # {}
    /\ \A k \in DOMAIN reverse_dependencies : reverse_dependencies[k] # {}
    /\ \A k \in DOMAIN file_symbols : file_symbols[k] # {}
    /\ \A k \in DOMAIN symbol_files : symbol_files[k] # {}
    /\ Range(dependencies_keys) = DOMAIN dependencies

QueriedOnlyIsNotOrdered ==
    Returned =>
        \A q \in queried :
            (q.op # "get_symbol_files" /\ q.key \notin Nodes) =>
                q.key \notin Range(order)

C29_QueriesChangeNothing ==
    /\ [](NoEmptyEntry /\ QueriedOnlyIsNotOrdered)
    /\ [][QueriesChangeNothing /\ GetterReturnsStored]_vars

\* A getter was called on a file that no call had recorded and returned an
\* empty set, and a later get_dependency_order() returned the files of the
\* graph without it.
C29_Witness ==
    /\ Returned
    /\ order # <<>>
    /\ \E q \in queried :
          /\ q.op = "get_file_dependencies"
          /\ q.result = {}
          /\ q.key \notin Nodes
          /\ q.key \notin DOMAIN file_symbols
          /\ q.key \notin Range(order)

(***************************************************************************)
(* C30.  Conditional elision is idempotent: whatever the text, balanced    *)
(* or not, _process_conditionals applied to its own output returns the     *)
(* output unchanged, because no line of the output starts a skip region.   *)
(* For the text a process_source call returned, which is the output of     *)
(* _process_conditionals.                                                  *)
(***************************************************************************)
C30_ElisionIsIdempotent ==
    pp_pc = "returned" =>
        /\ _process_conditionals(pp_result) = pp_result
        /\ \A k \in LineNumbers(pp_result) : ~Opens(pp_result, k)

\* A call returned three lines of an unbalanced text: an #endif line that
\* ended no region, a line with #ifdef after other text, and an empty line.
C30_Witness ==
    /\ pp_pc = "returned"
    /\ Cardinality(LineNumbers(pp_result)) = 3
    /\ \E k \in LineNumbers(pp_result) : Closes(pp_result, k)
    /\ \E k \in LineNumbers(pp_result) : Line(pp_result, k) = <<"N", SP, "#ifdef">>
    /\ \E k \in LineNumbers(pp_result) : Line(pp_result, k) = <<>>

=============================================================================
